---------------------------- MODULE Spec2Model ----------------------------
(***************************************************************************)
(* CitationSum: the graph-conditioned Transformer decoder                  *)
(* (src/src/models/decoder_with_graph.py), its sharded loss               *)
(* (src/src/models/loss.py) and the citation subgraphs of the              *)
(* preprocessing (src/src/prepro/data_builder.py).                         *)
(*                                                                         *)
(* Tensors are modelled by their shape and their content.  The content of  *)
(* a float tensor is one symbolic term per vector (the last axis): every   *)
(* learned function (embedding, layer norm, projection, attention,         *)
(* feed-forward) is a free function symbol, so two vectors are equal in    *)
(* the model exactly when the code computes them by the same dataflow.     *)
(***************************************************************************)
EXTENDS Integers, Sequences, FiniteSets, TLC

-----------------------------------------------------------------------------
(* Bounds of the model *)

\* the longest target the decoder is run on (tokens per call, and per session)
MaxLen == 3
\* the number of support operations (detach, repeat_beam_size_times,
\* map_batch_fn) a state goes through
MaxSupportOps == 1
\* the source / graph length of the sample inputs
SrcLen == 2
\* the most rows repeat_beam_size_times may grow a tensor to
MaxRows == 4
\* the model dimension the decoder is constructed with
d_model == 4
\* the most examples of a batch the loss is computed for
MaxBatch == 3
\* the largest shard size
MaxShardSize == 3
\* the number of rows and columns of a similarity matrix
NumNodes == 2
\* the size of the target vocabulary: the tokens 0..vocab_size - 1
vocab_size == 4
\* the papers of a corpus are numbered 1..NumPapers
NumPapers == 3
\* the most references the rows of a citation graph hold together
MaxEdges == 2
\* the largest args.n_hop
MaxHop == 2
\* the largest args.max_neighbor_num
MaxNeighbor == 2

\* program constants: the size of the subsequent-mask buffer and the
\* embeddings' padding_idx
MAX_SIZE == 5000
PAD == 0

-----------------------------------------------------------------------------
(* Generic helpers *)

\* an optional value: None is the empty sequence, Some(v) the singleton
None == <<>>
Some(v) == <<v>>
IsNone(o) == o = <<>>
Get(o) == o[1]

Min(a, b) == IF a <= b THEN a ELSE b

\* the elements of s at the positions p (1..Len(s)) with keep[p], in order
Filter(s, keep) ==
  LET RECURSIVE go(_)
      go(k) == IF k = 0 THEN <<>>
               ELSE IF keep[k] THEN Append(go(k - 1), s[k]) ELSE go(k - 1)
  IN go(Len(s))

\* s repeated k times one after the other
Tile(s, k) == [p \in 1..(Len(s) * k) |-> s[((p - 1) % Len(s)) + 1]] \o <<>>

\* the element of a singleton set: The({e(x) : x \in {v}}) is e(v), with v
\* evaluated once
The(S) == CHOOSE x \in S : TRUE

\* a sequence, a sequence of sequences and a sequence of sequences of
\* sequences written as functions, as tuples (the same values)
Seq1(s) == s \o <<>>
Seq2(s) == The({Seq1([b \in 1..Len(o) |-> Seq1(o[b])]) : o \in {Seq1(s)}})
Seq3(s) == The({Seq1([b \in 1..Len(o) |-> Seq2(o[b])]) : o \in {Seq1(s)}})

-----------------------------------------------------------------------------
(* Symbolic vectors: a term is <<function symbol, index, arguments>> *)

Term(tag, n, kids) == <<tag, n, kids>>
\* the vector bound by the enclosing Let
Var == Term("var", 0, <<>>)
\* body, in which Var stands for v
Let(v, body) == Term("let", 0, <<v, body>>)

-----------------------------------------------------------------------------
(* Tensors *)

\* a token tensor (LongTensor): shape and nested rows; 2-D [batch, len] has
\* data[b][j], 3-D [a, batch, len] has data[a][b][j]
TokTensor(shape, data) ==
  [shape |-> shape,
   data |-> IF Len(shape) = 2 THEN Seq2(data) ELSE Seq3(data)]

\* a float tensor [batch, time, dim]: data[b][i] is the vector at (b, i);
\* grad tells whether the tensor is attached to the autograd graph
FloatTensor(dim, data, grad) ==
  The({[shape |-> <<Len(d), IF Len(d) = 0 THEN 0 ELSE Len(d[1]), dim>>,
        data |-> d, grad |-> grad] : d \in {Seq2(data)}})

\* torch.cat((a, b), dim=1) of two float tensors of the same batch and dim
Cat1(a, b) ==
  FloatTensor(a.shape[3], [bb \in 1..Len(a.data) |-> a.data[bb] \o b.data[bb]],
              a.grad \/ b.grad)

\* x.eq(padding_idx).unsqueeze(1).expand(batch, tgt_len, len) of a 2-D token
\* tensor: entry [b][i][j] tells whether token j of example b is padding
PadMask(words, tgt_len) ==
  Seq3([b \in 1..words.shape[1] |->
          [i \in 1..tgt_len |->
             [j \in 1..words.shape[2] |-> words.data[b][j] = PAD]]])

\* masks.expand(batch, tgt_len, len) of an explicit [batch, 1, len] mask
ExpandMask(masks, tgt_len) ==
  Seq3([b \in 1..Len(masks) |-> [i \in 1..tgt_len |-> masks[b][1]]])

\* the entry of a mask [batch, tq, tk] that torch's expand_as reads for key j
\* (a key axis of size 1 is broadcast)
MaskAt(mask, b, i, j) ==
  IF Len(mask[b][i]) = 1 THEN mask[b][i][1] ELSE mask[b][i][j]

-----------------------------------------------------------------------------
(* External capabilities of the decoder layer *)

\* self.embeddings(tgt): one vector per token
Embeddings(tok) == Term("emb", tok, <<>>)

\* self.pos_emb(emb, step): the vector of position pos added to e
PositionalEncoding(e, pos) == Term("pos", pos, <<e>>)

\* nn.LayerNorm number k (1, 2, 3; 0 is the stack's final norm) of layer l
LayerNorm(k, l, x) == Term("ln", 10 * l + k, <<x>>)

\* nn.Dropout, as a function of its input (evaluation mode)
Dropout(x) == Term("drop", 0, <<x>>)

Add(a, b) == Term("add", 0, <<a, b>>)

PositionwiseFeedForward(l, x) == Term("ff", l, <<x>>)

\* the three attention modules of layer l, by their cache type
AttnTypes == <<"self", "g_context", "context">>
AttnCode(type, l) ==
  10 * l + (CHOOSE k \in 1..3 : AttnTypes[k] = type)

\* linear_keys / linear_values / linear_query of one attention module
Project(which, type, l, tensor) ==
  FloatTensor(tensor.shape[3],
    [b \in 1..Len(tensor.data) |->
       [j \in 1..Len(tensor.data[b]) |->
          Term(which, AttnCode(type, l), <<tensor.data[b][j]>>)]],
    TRUE)

\* the key/value pairs query i of example b attends to: those the mask
\* leaves visible, in their order
Visible(k, v, mask, b, i) ==
  The({Filter(pairs, keep) :
         pairs \in {Seq1([j \in 1..Len(k.data[b]) |->
                      Term("kv", 0, <<k.data[b][j], v.data[b][j]>>)])},
         keep \in {Seq1([j \in 1..Len(k.data[b]) |->
                      IF IsNone(mask) THEN TRUE
                      ELSE ~MaskAt(Get(mask), b, i, j)])}})

\* scaled dot-product attention of the projected query over the projected
\* keys and values: a function of the query and of the visible pairs
Attend(type, l, q, k, v, mask) ==
  FloatTensor(q.shape[3],
    [b \in 1..Len(q.data) |->
       [i \in 1..Len(q.data[b]) |->
          Term("attn", AttnCode(type, l),
               <<q.data[b][i]>> \o Visible(k, v, mask, b, i))]],
    TRUE)

\* the cache slots an attention type reads and fills
KeySlot(type) == CASE type = "self" -> "self_keys"
                   [] type = "g_context" -> "g_memory_keys"
                   [] type = "context" -> "memory_keys"
ValueSlot(type) == CASE type = "self" -> "self_values"
                     [] type = "g_context" -> "g_memory_values"
                     [] type = "context" -> "memory_values"

\* the keys (which = "key") or values (which = "value") an attention call
\* attends over, given the slot of the layer cache.  Self-attention projects
\* the current step and appends it to the cached steps; a cross-attention
\* projects its memory on the first call and reuses the slot afterwards.
CachedProjection(which, type, l, memory, query, slot) ==
  IF type = "self"
  THEN IF IsNone(slot) THEN Project(which, type, l, query)
       ELSE The({Cat1(Get(slot), p) : p \in {Project(which, type, l, query)}})
  ELSE IF IsNone(slot) THEN Project(which, type, l, memory)
       ELSE Get(slot)

\* MultiHeadedAttention.forward(key, value, query, mask, layer_cache, type):
\* the attended output and the layer cache as the call leaves it
MultiHeadedAttention(l, key, value, query, mask, layer_cache, type) ==
  IF IsNone(layer_cache)
  THEN The({[out |-> Attend(type, l, q, k, v, mask), cache |-> None] :
              q \in {Project("query", type, l, query)},
              k \in {Project("key", type, l, key)},
              v \in {Project("value", type, l, value)}})
  ELSE The({[out |-> Attend(type, l, q, k, v, mask),
             cache |-> Some([Get(layer_cache) EXCEPT
                               ![KeySlot(type)] = Some(k),
                               ![ValueSlot(type)] = Some(v)])] :
              q \in {Project("query", type, l, query)},
              k \in {CachedProjection("key", type, l, key, query,
                                      Get(layer_cache)[KeySlot(type)])},
              v \in {CachedProjection("value", type, l, value, query,
                                      Get(layer_cache)[ValueSlot(type)])}})

-----------------------------------------------------------------------------
(* TransformerDecoderLayer *)

\* np.triu(ones, k=0) in place of k=1: the diagonal is masked too
SubsequentMaskWithDiagonal(size) ==
  Seq2([i \in 1..size |-> [j \in 1..size |-> j >= i]])

\* _get_attn_subsequent_mask(size): np.triu(ones, k=1), entry (i, j) set
\* exactly when j > i
SubsequentMask(size) == Seq2([i \in 1..size |-> [j \in 1..size |-> j > i]])

\* self.mask[:, :n, :n] of the registered buffer, _get_attn_subsequent_mask(
\* MAX_SIZE): its first Min(n, MAX_SIZE) rows and columns
MaskSlice(n) == SubsequentMask(Min(n, MAX_SIZE))

\* torch.gt(tgt_pad_mask + self.mask[:, :T, :T], 0)
DecMask(tgt_pad_mask) ==
  The({Seq3([b \in 1..Len(tgt_pad_mask) |->
               [i \in 1..Len(tri) |->
                  [j \in 1..Len(tri) |-> tgt_pad_mask[b][i][j] \/ tri[i][j]]]]) :
         tri \in {MaskSlice(Len(tgt_pad_mask[1]))}})

\* nn.LayerNorm number k of layer l applied to every vector of a tensor
LayerNormOf(k, l, tensor) ==
  FloatTensor(tensor.shape[3],
    [b \in 1..Len(tensor.data) |->
       [i \in 1..Len(tensor.data[b]) |-> LayerNorm(k, l, tensor.data[b][i])]],
    TRUE)

\* the tensor of the shape of tensor whose every vector is Var
VarsOf(tensor) ==
  FloatTensor(tensor.shape[3],
    [b \in 1..Len(tensor.data) |-> [i \in 1..Len(tensor.data[b]) |-> Var]],
    TRUE)

\* the residual sum drop(a) + x, vector by vector
Residual(a, x) ==
  FloatTensor(x.shape[3],
    [b \in 1..Len(x.data) |->
       [i \in 1..Len(x.data[b]) |->
          Add(Dropout(a.data[b][i]), x.data[b][i])]],
    TRUE)

\* all_input without the concatenation of the previous input
AllInputWithoutHistory(inputs, input_norm, previous_input) == input_norm

\* all_input built from the input before layer_norm_1
AllInputOfRawInput(inputs, input_norm, previous_input) ==
  IF IsNone(previous_input) THEN inputs
  ELSE Cat1(Get(previous_input), inputs)

\* what the layer returns as all_input
AllInput(inputs, input_norm, previous_input) ==
  IF IsNone(previous_input) THEN input_norm
  ELSE Cat1(Get(previous_input), input_norm)

\* the mask self-attention runs with
SelfAttnMask(tgt_pad_mask, previous_input) ==
  IF IsNone(previous_input) THEN Some(DecMask(tgt_pad_mask)) ELSE None

\* the residual operand of the feed-forward input: the self-attention
\* sublayer's output (query), as the code has it
FeedForwardResidual(query, query_g) == query

\* TransformerDecoderLayer.forward, statement by statement: each step adds
\* the variable it assigns to the frame e of local variables.
\* input_norm = self.layer_norm_1(inputs)
LayerNormInput(e0) ==
  The({e @@ [input_norm |-> LayerNormOf(1, e.l, e.inputs)] :
         e \in {e0}})

\* all_input = input_norm, or cat((previous_input, input_norm)) with
\* dec_mask = None
LayerAllInput(e0) ==
  The({e @@ [all_input |-> AllInput(e.inputs, e.input_norm, e.previous_input),
             dec_mask |-> SelfAttnMask(e.tgt_pad_mask, e.previous_input)] :
         e \in {e0}})

\* query = self.self_attn(all_input, all_input, input_norm, mask=dec_mask,
\*                        layer_cache=layer_cache, type="self")
LayerSelfAttn(e0) ==
  The({e @@ [sa |-> MultiHeadedAttention(e.l, e.all_input, e.all_input,
                      e.input_norm, e.dec_mask, e.layer_cache, "self")] :
         e \in {e0}})

\* query = self.drop(query) + inputs.  From here on the vectors are written
\* over Var, which stands for that position's query; the output binds it.
LayerQuery(e0) ==
  The({e @@ [query |-> Residual(e.sa.out, e.inputs),
             qv |-> VarsOf(e.inputs)] :
         e \in {e0}})

\* query_norm = self.layer_norm_2(query)
LayerQueryNorm(e0) ==
  The({e @@ [query_norm |-> LayerNormOf(2, e.l, e.qv)] :
         e \in {e0}})

\* query_graph = self.graph_attn(g_memory, g_memory, query_norm,
\*                 mask=g_memory_mask, layer_cache=..., type="g_context")
LayerGraphAttn(e0) ==
  The({e @@ [ga |-> MultiHeadedAttention(e.l, e.g_memory, e.g_memory,
                      e.query_norm, Some(e.g_memory_mask), e.sa.cache,
                      "g_context")] :
         e \in {e0}})

\* query_g = self.drop(query_graph) + query
LayerQueryG(e0) ==
  The({e @@ [query_g |-> Residual(e.ga.out, e.qv)] : e \in {e0}})

\* query_g_norm = self.layer_norm_3(query_g)
LayerQueryGNorm(e0) ==
  The({e @@ [query_g_norm |->
               LayerNormOf(3, e.l, e.query_g)] :
         e \in {e0}})

\* mid = self.context_attn(memory_bank, memory_bank, query_g_norm,
\*         mask=src_pad_mask, layer_cache=..., type="context")
LayerContextAttn(e0) ==
  The({e @@ [ca |-> MultiHeadedAttention(e.l, e.memory_bank, e.memory_bank,
                      e.query_g_norm, Some(e.src_pad_mask), e.ga.cache,
                      "context")] :
         e \in {e0}})

\* self.drop(mid) + query, the argument of self.feed_forward
LayerFeedForwardInput(e0) ==
  The({e @@ [ff_in |-> Residual(e.ca.out,
                                FeedForwardResidual(e.qv, e.query_g))] :
         e \in {e0}})

\* output = self.feed_forward(...); return output, all_input
LayerOutput(e0) ==
  The({[output |->
          FloatTensor(e.inputs.shape[3],
            [b \in 1..Len(e.inputs.data) |->
               [i \in 1..Len(e.inputs.data[b]) |->
                  Let(e.query.data[b][i],
                      PositionwiseFeedForward(e.l, e.ff_in.data[b][i]))]],
            TRUE),
        all_input |-> e.all_input, cache |-> e.ca.cache,
        dec_mask |-> e.dec_mask, ff_in |-> e.ff_in,
        locals |-> [inputs |-> e.inputs, input_norm |-> e.input_norm,
                    previous_input |-> e.previous_input,
                    query |-> e.qv, query_g |-> e.query_g,
                    mid |-> e.ca.out, ff_in |-> e.ff_in]] :
         e \in {e0}})

\* TransformerDecoderLayer.forward of layer l
TransformerDecoderLayer(l, inputs, memory_bank, g_memory, src_pad_mask, g_memory_mask, tgt_pad_mask, previous_input, layer_cache) ==
  LayerOutput(LayerFeedForwardInput(LayerContextAttn(LayerQueryGNorm(
    LayerQueryG(LayerGraphAttn(LayerQueryNorm(LayerQuery(LayerSelfAttn(
      LayerAllInput(LayerNormInput(
        [l |-> l, inputs |-> inputs, memory_bank |-> memory_bank,
         g_memory |-> g_memory, src_pad_mask |-> src_pad_mask,
         g_memory_mask |-> g_memory_mask, tgt_pad_mask |-> tgt_pad_mask,
         previous_input |-> previous_input,
         layer_cache |-> layer_cache])))))))))))

-----------------------------------------------------------------------------
(* TransformerDecoderState *)

LayerKeys(num_layers) == 0..(num_layers - 1)

\* TransformerDecoderState.__init__
TransformerDecoderState(src, g_src) ==
  [src |-> src, g_src |-> g_src, previous_input |-> None,
   previous_layer_inputs |-> None, cache |-> None]

\* a layer cache record without the slots of the graph attention
LayerCacheWithoutGraph ==
  [memory_keys |-> None, memory_values |-> None,
   self_keys |-> None, self_values |-> None]

\* the record _init_cache gives every layer
EmptyLayerCache ==
  [memory_keys |-> None, memory_values |-> None,
   g_memory_keys |-> None, g_memory_values |-> None,
   self_keys |-> None, self_values |-> None]

\* _init_cache(num_layers): one record of empty slots per layer key
InitCache(state, num_layers) ==
  [state EXCEPT !.cache = Some([l \in LayerKeys(num_layers) |-> EmptyLayerCache])]

\* init_decoder_state(src, g_src, with_cache)
InitDecoderStateOf(src, g_src, with_cache, num_layers) ==
  IF with_cache THEN InitCache(TransformerDecoderState(src, g_src), num_layers)
  ELSE TransformerDecoderState(src, g_src)

\* update_state building the new state with src and g_src exchanged
UpdateStateSwappingSources(self, new_input, previous_layer_inputs) ==
  [src |-> self.g_src, g_src |-> self.src,
   previous_input |-> Some(new_input),
   previous_layer_inputs |-> Some(previous_layer_inputs), cache |-> None]

\* update_state(new_input, previous_layer_inputs): a new state object
UpdateState(self, new_input, previous_layer_inputs) ==
  [TransformerDecoderState(self.src, self.g_src) EXCEPT
     !.previous_input = Some(new_input),
     !.previous_layer_inputs = Some(previous_layer_inputs)]

Detached(tensor) == [tensor EXCEPT !.grad = FALSE]

\* detach(): token tensors carry no gradient, so detaching src and g_src
\* leaves them as they are
DetachState(self) ==
  [self EXCEPT
     !.previous_layer_inputs =
        IF IsNone(@) THEN None
        ELSE Some(Seq1([l \in 1..Len(Get(@)) |-> Detached(Get(@)[l])]))]

\* tensor.repeat(1, k, 1) of a token tensor of rank 2 or 3: a rank-2 tensor
\* [b, n] is read as [1, b, n]
Repeat1k1(t, k) ==
  IF Len(t.shape) = 2
  THEN TokTensor(<<1, t.shape[1] * k, t.shape[2]>>, <<Tile(t.data, k)>>)
  ELSE TokTensor(<<t.shape[1], t.shape[2] * k, t.shape[3]>>,
                 Seq1([a \in 1..t.shape[1] |-> Tile(t.data[a], k)]))

\* the tensor g_src is replicated from
RepeatSourceOfG(self, new_src) == new_src

\* repeat_beam_size_times(beam_size)
RepeatBeamSizeTimes(self, beam_size) ==
  LET new_src == Repeat1k1(self.src, beam_size)
  IN [self EXCEPT !.src = new_src,
                  !.g_src = Repeat1k1(RepeatSourceOfG(self, new_src), beam_size)]

\* fn(v, 0) for the beam functions: index_select along axis 0 by idx
IndexSelect(v, idx) ==
  [v EXCEPT !.shape = <<Len(idx)>> \o Tail(@),
            !.data = Seq1([k \in 1..Len(idx) |-> @[idx[k]]])]

SlotNames ==
  {"self_keys", "self_values", "memory_keys", "memory_values",
   "g_memory_keys", "g_memory_values"}

\* a map that does not descend into the records of the layers
MapCacheTopLevelOnly(cache, idx) == cache

\* _recursive_map over the cache: every slot that is not None is replaced
MapCache(cache, idx) ==
  [l \in DOMAIN cache |->
     [k \in DOMAIN cache[l] |->
        IF IsNone(cache[l][k]) THEN None
        ELSE Some(IndexSelect(Get(cache[l][k]), idx))]]

\* map_batch_fn(fn)
MapBatchFn(self, idx) ==
  [self EXCEPT !.src = IndexSelect(@, idx),
               !.g_src = IndexSelect(@, idx),
               !.cache = IF IsNone(@) THEN None ELSE Some(MapCache(Get(@), idx))]

-----------------------------------------------------------------------------
(* TransformerDecoderWithGraph *)

\* the position whose encoding token i (1-based) of a call receives
PositionOf(step, i) == IF IsNone(step) THEN i - 1 ELSE Get(step) + i - 1

\* self.pos_emb(self.embeddings(tgt), step)
EmbedTarget(tgt, step) ==
  FloatTensor(d_model,
    [b \in 1..tgt.shape[1] |->
       [i \in 1..tgt.shape[2] |->
          PositionalEncoding(Embeddings(tgt.data[b][i]), PositionOf(step, i))]],
    TRUE)

\* the pad mask of the document (or graph) memory for a target of tgt_len
MemoryPadMask(words, masks, tgt_len) ==
  IF ~IsNone(masks) THEN ExpandMask(Get(masks), tgt_len)
  ELSE PadMask(words, tgt_len)

\* saved_inputs = [all_input] in place of saved_inputs.append(all_input)
SaveInputOverwriting(saved_inputs, all_input) == <<all_input>>

\* the saved_inputs list after layer l appended all_input
SaveInput(saved_inputs, all_input) == Append(saved_inputs, all_input)

\* forward recording the history on a state with a cache as well
ForwardStateWithHistory(state, tgt, saved_inputs, cache) ==
  [state EXCEPT !.previous_input = Some(tgt),
                !.previous_layer_inputs = Some(saved_inputs),
                !.cache = cache]

\* forward calling update_state whether or not the state has a cache
ForwardStateAlwaysUpdated(state, tgt, saved_inputs, cache) ==
  [src |-> state.src, g_src |-> state.g_src, previous_input |-> Some(tgt),
   previous_layer_inputs |-> Some(saved_inputs), cache |-> None]

\* the state forward returns: update_state without a cache, the argument
\* itself (its cache filled in place) with one
ForwardState(state, tgt, saved_inputs, cache) ==
  IF IsNone(state.cache) THEN UpdateState(state, tgt, saved_inputs)
  ELSE [state EXCEPT !.cache = cache]

\* one iteration of the loop over the layers: r is the loop's variables
\* (output, saved_inputs, the cache) after the layers before layer i
RunLayer(f, r, i) ==
  The({[output |-> res.output,
        saved_inputs |->
          IF IsNone(f.state.cache)
          THEN SaveInput(r.saved_inputs, res.all_input)
          ELSE r.saved_inputs,
        cache |->
          IF IsNone(r.cache) THEN None
          ELSE Some([Get(r.cache) EXCEPT ![i] = Get(res.cache)]),
        dec_masks |-> Append(r.dec_masks, res.dec_mask),
        all_inputs |-> Append(r.all_inputs, res.all_input),
        layer_locals |-> Append(r.layer_locals, res.locals)] :
         res \in {TransformerDecoderLayer(i, r.output, f.memory_bank,
                    f.g_memory, f.src_pad_mask, f.g_pad_mask, f.tgt_pad_mask,
                    IF IsNone(f.state.cache) /\ ~IsNone(f.state.previous_input)
                    THEN Some(Get(f.state.previous_layer_inputs)[i + 1])
                    ELSE None,
                    IF IsNone(r.cache) THEN None ELSE Some(Get(r.cache)[i]))}})

\* the loop over the layers after its first n iterations
RECURSIVE RunLayers(_, _)
RunLayers(f, n) ==
  IF n = 0
  THEN [output |-> f.emb, saved_inputs |-> <<>>, cache |-> f.state.cache,
        dec_masks |-> <<>>, all_inputs |-> <<>>, layer_locals |-> <<>>]
  ELSE The({RunLayer(f, r, n - 1) : r \in {RunLayers(f, n - 1)}})

\* output = self.layer_norm(output); state = state.update_state(...) when
\* there is no cache; return output, state
ForwardResult(f, done) ==
  [output |-> LayerNormOf(0, f.num_layers, done.output),
   state |-> ForwardState(f.state, f.tgt, done.saved_inputs, done.cache),
   dec_masks |-> done.dec_masks,
   all_inputs |-> done.all_inputs,
   layer_locals |-> done.layer_locals]

\* TransformerDecoderWithGraph.forward: f is the frame of the call's
\* arguments, the embedded target and the three pad masks
DecoderForward(num_layers, tgt, memory_bank, g_memory, state, step, memory_masks, g_masks) ==
  The({The({ForwardResult(f, done) : done \in {RunLayers(f, num_layers)}}) :
         f \in {[num_layers |-> num_layers, tgt |-> tgt, state |-> state,
                 memory_bank |-> memory_bank, g_memory |-> g_memory,
                 emb |-> EmbedTarget(tgt, step),
                 tgt_pad_mask |-> PadMask(tgt, tgt.shape[2]),
                 src_pad_mask |->
                   MemoryPadMask(state.src, memory_masks, tgt.shape[2]),
                 g_pad_mask |->
                   MemoryPadMask(state.g_src, g_masks, tgt.shape[2])]}})

-----------------------------------------------------------------------------
(* State variables *)

VARIABLES
  num_layers,   \* self.num_layers of the decoder that was constructed
  heap,         \* the decoder state objects, by object id
  cur,          \* the id of the state object the caller holds (0: none)
  last,         \* the last call: its arguments and what it returned
  fed,          \* the tokens a cached session was fed one by one
  support_ops,  \* the number of support operations applied so far
  criterion,    \* self.criterion of the NMTLossCompute that was constructed
  built,        \* how it was constructed: the function and its arguments
  loss_pc,      \* where the loss computation is: new, idle, shards, returned,
                \* raised
  loss_call,    \* the call of the loss computation and its shard state
  yielded,      \* the shards shards() has yielded so far
  shard_losses, \* the loss _compute_loss returned for each of them
  grads,        \* the fields of each of them whose chunk has a gradient
  batch_stats,  \* the Statistics accumulated or returned
  events,       \* loss computations, backward passes and merges, in order
  backward_calls \* what each backward pass was run on, in order

VARIABLES
  graph_pc,         \* where the preprocessing of a paper is: loading, k_hop,
                    \* k_nbrs, centre, returned, done, raised
  graph_strut_dict, \* the citation graph: paper id -> its row of the corpus
  graph_args,       \* paper_id, args.n_hop and args.max_neighbor_num of the call
  sub_graph,        \* _k_hop_neighbor: the papers of each level
  visited,          \* _k_hop_neighbor: the set visited
  queue,            \* _k_hop_neighbor: the deque q of [paper id, level]
  curr_node_num,    \* _k_hop_neighbor: the number of papers placed
  sub_graph_set,    \* generate_graph_structs: the levels one after the other
  centre_at,        \* generate_graph_structs: the centre node the loop is at
  sub_graph_dict,   \* generate_graph_structs: the subgraph dictionary
  dgl_graph         \* generate_dgl_graph: the call and the graph it built

decoder_vars == <<num_layers, heap, cur, last, fed, support_ops>>
build_vars == <<criterion, built>>
loss_vars ==
  <<build_vars, loss_pc, loss_call, yielded, shard_losses, grads, batch_stats, events,
    backward_calls>>
k_hop_vars == <<sub_graph, visited, queue, curr_node_num>>
struct_vars == <<sub_graph_set, centre_at, sub_graph_dict>>
graph_vars ==
  <<graph_pc, graph_strut_dict, graph_args, k_hop_vars, struct_vars, dgl_graph>>
vars == <<decoder_vars, loss_vars, graph_vars>>

-----------------------------------------------------------------------------
(* Loss values *)

\* Losses are real numbers whose building blocks (a log-probability of the
\* generator, a cross entropy, a logarithm) are kept as symbols: a value is
\* a linear form, the set of <<symbol, coefficient>> of its symbols with a
\* non-zero rational coefficient.  A symbol is <<tag, i, j>>.
RECURSIVE GCD(_, _)
GCD(a, b) == IF b = 0 THEN a ELSE GCD(b, a % b)

Abs(n) == IF n < 0 THEN -n ELSE n

\* the fraction n / d (d # 0) in lowest terms, as <<numerator, denominator>>
Frac(n, d) ==
  The({IF d < 0 THEN <<(-n) \div g, (-d) \div g>> ELSE <<n \div g, d \div g>> :
         g \in {GCD(Abs(n), Abs(d))}})

FracAdd(x, y) == Frac(x[1] * y[2] + y[1] * x[2], x[2] * y[2])

Zero == {}
Symbol(tag, i, j) == {<< <<tag, i, j>>, <<1, 1>> >>}

Coeff(r, sym) ==
  IF \E p \in r : p[1] = sym THEN (CHOOSE p \in r : p[1] = sym)[2]
  ELSE <<0, 1>>

\* a + b
Plus(a, b) ==
  {p \in {<<sym, FracAdd(Coeff(a, sym), Coeff(b, sym))>> :
            sym \in {q[1] : q \in a \cup b}} : p[2][1] # 0}

\* a / k for an integer k # 0 (tensor.div(k); the division of a mean)
DivBy(a, k) == {<<p[1], Frac(p[2][1], p[2][2] * k)>> : p \in a}

\* a * f for a fraction f
Times(a, f) ==
  {p \in {<<q[1], Frac(q[2][1] * f[1], q[2][2] * f[2])>> : q \in a} :
     p[2][1] # 0}

\* the sum of a sequence of values (tensor.sum())
RECURSIVE SumOf(_)
SumOf(s) == IF s = <<>> THEN Zero ELSE Plus(SumOf(SubSeq(s, 1, Len(s) - 1)), s[Len(s)])

\* tensor.mean() of the entries s (at least one)
MeanOf(s) == DivBy(SumOf(s), Len(s))

\* the rows of a sequence of sequences one after the other (reshape / view
\* that merges the two leading axes)
RECURSIVE Flatten(_)
Flatten(s) == IF s = <<>> THEN <<>> ELSE Flatten(SubSeq(s, 1, Len(s) - 1)) \o s[Len(s)]

-----------------------------------------------------------------------------
(* NMTLossCompute *)

\* A tensor of the loss is its rows along the batch axis (data[b] is what
\* example b holds) and its requires_grad flag.
LossTensor(data, requires_grad) ==
  [data |-> Seq1(data), requires_grad |-> requires_grad]

\* the generator's scores for hidden vector h: the log-probability it gives
\* token v is the negated symbol nll(h, v); its best token is Pred(h)
NegLogProb(h, v) == Symbol("nll", h, v)
Pred(h) == h

\* abs_loss passing its label_smoothing whatever train is
AbsLossSmoothingIgnoringTrain(train, label_smoothing) == label_smoothing

\* what abs_loss(generator, symbols, vocab_size, device, train,
\* label_smoothing) passes to NMTLossCompute as label_smoothing; a smoothing
\* is a fraction <<numerator, denominator>>
AbsLossSmoothing(train, label_smoothing) ==
  IF train THEN label_smoothing ELSE <<0, 1>>

\* self.criterion as NMTLossCompute.__init__ builds it: a LabelSmoothingLoss
\* with its smoothing_value and confidence when label_smoothing > 0, whose
\* constructor asserts 0.0 < label_smoothing <= 1.0, and otherwise
\* nn.NLLLoss(ignore_index=padding_idx, reduction='sum'), which has neither
NewCriterion(label_smoothing) ==
  IF label_smoothing[1] > 0
  THEN IF label_smoothing[1] <= label_smoothing[2]
       THEN [kind |-> "LabelSmoothingLoss", ignore_index |-> PAD,
             smoothing_value |->
               Frac(label_smoothing[1], label_smoothing[2] * (vocab_size - 2)),
             confidence |->
               Frac(label_smoothing[2] - label_smoothing[1], label_smoothing[2])]
       ELSE [kind |-> "AssertionError", ignore_index |-> PAD,
             smoothing_value |-> <<0, 1>>, confidence |-> <<0, 1>>]
  ELSE [kind |-> "NLLLoss", ignore_index |-> PAD,
        smoothing_value |-> <<0, 1>>, confidence |-> <<1, 1>>]

\* no criterion: nothing was constructed
NoCriterion ==
  [kind |-> "none", ignore_index |-> PAD, smoothing_value |-> <<0, 1>>,
   confidence |-> <<0, 1>>]

\* p * log(p) of a probability p, 0 for p = 0
XLogX(p) == IF p[1] = 0 THEN Zero ELSE Symbol("xlogx", p[1], p[2])

\* LabelSmoothingLoss.forward(output, target): F.kl_div(output, model_prob,
\* reduction='sum'), where model_prob of a row is confidence at its target,
\* smoothing_value at the other tokens, 0 at the padding index, and all 0
\* when the target is the padding index
LabelSmoothingLoss(self, hs, gtruth) ==
  SumOf([n \in 1..Len(hs) |->
           IF gtruth[n] = self.ignore_index THEN Zero
           ELSE Plus(SumOf([v \in 1..(vocab_size - 1) |->
                              Times(NegLogProb(hs[n], v),
                                    IF v = gtruth[n] THEN self.confidence
                                    ELSE self.smoothing_value)]),
                     Plus(XLogX(self.confidence),
                          Times(XLogX(self.smoothing_value),
                                <<vocab_size - 2, 1>>)))])

\* nn.NLLLoss(ignore_index=padding_idx, reduction='sum') of the scores of the
\* hidden vectors hs against the tokens gtruth
NLLLoss(hs, gtruth) ==
  SumOf([n \in 1..Len(hs) |->
           IF gtruth[n] = PAD THEN Zero ELSE NegLogProb(hs[n], gtruth[n])])

\* self.criterion(scores, gtruth)
Criterion(hs, gtruth) ==
  IF criterion.kind = "LabelSmoothingLoss"
  THEN LabelSmoothingLoss(criterion, hs, gtruth)
  ELSE NLLLoss(hs, gtruth)

\* nn.CrossEntropyLoss(reduction='none') of one row of two scores against the
\* label 1 (the second class)
CrossEntropy(row) == Symbol("ce", row[1], row[2])

\* the document-word contrastive term: (self.loss(rows, ones) * mask).mean()
DocWordContrast(doc_word_cos_sim, mask_src) ==
  The({MeanOf([n \in 1..Len(rows) |->
                 IF mask[n] = 1 THEN CrossEntropy(rows[n]) ELSE Zero]) :
         rows \in {Flatten(doc_word_cos_sim)}, mask \in {Flatten(mask_src)}})

\* seq_len_to_mask(node_num, max_len=nn) for one example
NodeMask(n, nn) == [i \in 1..nn |-> IF i <= n THEN 1 ELSE 0]

\* mask_graph = mask_graph_row * mask_graph_col for one example
MaskGraph(n, nn) ==
  [i \in 1..nn |-> [j \in 1..nn |-> NodeMask(n, nn)[j] * NodeMask(n, nn)[i]]]

\* torch.exp(tau * x) with tau = 1; a similarity x stands for x * ln 2
RECURSIVE Exp(_)
Exp(x) == IF x = 0 THEN 1 ELSE 2 * Exp(x - 1)

\* torch.sum(m, 1) of one example's matrix m[i][j]: entry j sums over i
RECURSIVE ColumnSum(_, _, _)
ColumnSum(m, j, i) == IF i = 0 THEN 0 ELSE m[i][j] + ColumnSum(m, j, i - 1)

\* an entry without the two masked_fill: the division by a zero x_dis_sum
\* gives inf or nan
NegLogRatioUnfilled(x_dis_sum_pos, x_dis_sum) ==
  IF x_dis_sum = 0 THEN Symbol("nan", 0, 0)
  ELSE IF x_dis_sum_pos = x_dis_sum THEN Zero
  ELSE IF x_dis_sum_pos = 0 THEN Symbol("inf", 0, 0)
  ELSE The({Symbol("nlog", f[1], f[2]) : f \in {Frac(x_dis_sum_pos, x_dis_sum)}})

\* -torch.log(cum_prod) of one entry, from x_dis_sum_pos and x_dis_sum:
\* reverse_x_dis_sum is 1 / x_dis_sum with 0 replaced by 1, and cum_prod is
\* filled with 1 where x_dis_sum is 0
NegLogRatio(x_dis_sum_pos, x_dis_sum) ==
  IF x_dis_sum = 0 THEN Zero
  ELSE IF x_dis_sum_pos = x_dis_sum THEN Zero
  ELSE IF x_dis_sum_pos = 0 THEN Symbol("inf", 0, 0)
  ELSE The({Symbol("nlog", f[1], f[2]) : f \in {Frac(x_dis_sum_pos, x_dis_sum)}})

\* the entries of -torch.log(cum_prod) of one example
NContrastRows(x, adj_label, mask_graph) ==
  [j \in 1..Len(x) |->
     NegLogRatio(
       ColumnSum([i \in 1..Len(x) |->
                    [jj \in 1..Len(x) |-> Exp(x[i][jj]) * adj_label[i][jj]]],
                 j, Len(x)),
       ColumnSum([i \in 1..Len(x) |->
                    [jj \in 1..Len(x) |-> Exp(x[i][jj]) * mask_graph[i][jj]]],
                 j, Len(x)))]

\* how the entries of -torch.log(cum_prod) are reduced to the loss
Reduce(entries) == MeanOf(entries)

\* _ncontrast(x_dis, adj_label, mask_graph)
NContrast(x_dis, adj_label, mask_graph) ==
  Reduce(Flatten([b \in 1..Len(x_dis) |->
                    NContrastRows(x_dis[b], adj_label[b], mask_graph[b])]))

\* Statistics(loss, n_words, n_correct, contra_loss, doc_word_contra_loss)
Statistics(loss, n_words, n_correct, contra_loss, doc_word_contra_loss) ==
  [loss |-> loss, n_words |-> n_words, n_correct |-> n_correct,
   contra_loss |-> contra_loss, doc_word_contra_loss |-> doc_word_contra_loss]

\* Statistics(): all zero
EmptyStatistics == Statistics(Zero, 0, 0, Zero, Zero)

\* an update that keeps the loss of the last record instead of the sum
UpdateStatisticsKeepingLastLoss(self, stat) ==
  Statistics(stat.loss, self.n_words + stat.n_words,
             self.n_correct + stat.n_correct,
             Plus(self.contra_loss, stat.contra_loss),
             Plus(self.doc_word_contra_loss, stat.doc_word_contra_loss))

\* Statistics.update(stat): every field is summed
UpdateStatistics(self, stat) ==
  Statistics(Plus(self.loss, stat.loss), self.n_words + stat.n_words,
             self.n_correct + stat.n_correct,
             Plus(self.contra_loss, stat.contra_loss),
             Plus(self.doc_word_contra_loss, stat.doc_word_contra_loss))

\* the number of positions n with test[n]
CountIf(test) == Cardinality({n \in DOMAIN test : test[n]})

\* _stats(loss, scores, target, contra_loss, doc_word_contra_loss)
StatsOf(loss, hs, target, contra_loss, doc_word_contra_loss) ==
  Statistics(loss,
             CountIf([n \in 1..Len(target) |-> target[n] # PAD]),
             CountIf([n \in 1..Len(target) |->
                        target[n] # PAD /\ Pred(hs[n]) = target[n]]),
             contra_loss, doc_word_contra_loss)

\* the two contrastive terms of _compute_loss: computed when cos_sim is
\* given, 0.0 otherwise
ContrastiveTerms(a) ==
  IF IsNone(a.cos_sim) THEN [doc_word |-> Zero, contra |-> Zero]
  ELSE [doc_word |->
          DocWordContrast(Get(a.doc_word_cos_sim), Get(a.mask_src)),
        contra |->
          NContrast(Get(a.cos_sim), Get(a.graph),
                    [b \in 1..Len(Get(a.node_num)) |->
                       MaskGraph(Get(a.node_num)[b], Len(Get(a.cos_sim)[b]))])]

\* the arguments of _compute_loss(batch, **args) with the defaults
\* cos_sim=None, doc_word_cos_sim=None filled in
WithDefaults(args) ==
  [k \in DOMAIN args \cup {"cos_sim", "doc_word_cos_sim"} |->
     IF k \in DOMAIN args THEN args[k] ELSE None]

\* _compute_loss(batch, **args) raises: a required argument is not passed,
\* output or target is None, or cos_sim is given and a tensor the
\* contrastive terms read is None
ComputeLossRaises(args) ==
  \/ \E k \in {"output", "target", "mask_src", "node_num", "graph"} :
       k \notin DOMAIN args
  \/ IsNone(args.output) \/ IsNone(args.target)
  \/ /\ ~IsNone(WithDefaults(args).cos_sim)
     /\ \E k \in {"doc_word_cos_sim", "mask_src", "node_num", "graph"} :
          IsNone(WithDefaults(args)[k])

\* _compute_loss building its statistics after the contrastive terms were
\* added to the loss
ComputeLossReportingTotal(args) ==
  The({[loss |-> Plus(Plus(primary, c.doc_word), c.contra),
        stats |-> StatsOf(Plus(Plus(primary, c.doc_word), c.contra), hs,
                          gtruth, c.contra, c.doc_word)] :
         hs \in {Flatten(Get(args.output))},
         gtruth \in {Flatten(Get(args.target))},
         primary \in {Criterion(Flatten(Get(args.output)),
                                Flatten(Get(args.target)))},
         c \in {ContrastiveTerms(WithDefaults(args))}})

\* _compute_loss(batch, output, target, mask_src, node_num, graph, cos_sim,
\* doc_word_cos_sim): the loss that is returned and the statistics
ComputeLoss(args) ==
  The({[loss |-> Plus(Plus(primary, c.doc_word), c.contra),
        stats |-> StatsOf(primary, hs, gtruth, c.contra, c.doc_word)] :
         hs \in {Flatten(Get(args.output))},
         gtruth \in {Flatten(Get(args.target))},
         primary \in {Criterion(Flatten(Get(args.output)),
                                Flatten(Get(args.target)))},
         c \in {ContrastiveTerms(WithDefaults(args))}})

-----------------------------------------------------------------------------
(* Sharding *)

ShardKeys ==
  {"output", "cos_sim", "mask_src", "node_num", "doc_word_cos_sim", "graph",
   "target"}

\* _make_shard_state(batch, output, mask_src, node_num, graph, cos_sim,
\* doc_word_cos_sim): target is batch.tgt[:, 1:]
MakeShardState(batch, output, mask_src, node_num, graph, cos_sim, doc_word_cos_sim) ==
  [k \in ShardKeys |->
     CASE k = "output" -> output
       [] k = "cos_sim" -> cos_sim
       [] k = "mask_src" -> mask_src
       [] k = "node_num" -> node_num
       [] k = "doc_word_cos_sim" -> doc_word_cos_sim
       [] k = "graph" -> graph
       [] k = "target" ->
            Some(LossTensor([b \in 1..Len(batch.tgt) |-> Tail(batch.tgt[b])],
                            FALSE))]

\* a split that drops the rows after the last full chunk
NumChunksOfFullSize(n, shard_size) == n \div shard_size

\* the number of chunks torch.split(v, shard_size) cuts n rows into
NumChunks(n, shard_size) == (n + shard_size - 1) \div shard_size

\* torch.split(v, shard_size): chunks of shard_size rows, the last one
\* possibly smaller
Split(data, shard_size) ==
  [k \in 1..NumChunks(Len(data), shard_size) |->
     SubSeq(data, (k - 1) * shard_size + 1, Min(k * shard_size, Len(data)))]

\* filter_shard_state(state, shard_size): every value that is not None, with
\* its chunks (clones that keep requires_grad)
FilterShardState(state, shard_size) ==
  [k \in {key \in DOMAIN state : ~IsNone(state[key])} |->
     [v |-> Get(state[k]),
      v_split |->
        The({Seq1([i \in 1..Len(chunks) |->
                     LossTensor(chunks[i], Get(state[k]).requires_grad)]) :
               chunks \in {Split(Get(state[k]).data, shard_size)}})]]

\* the number of shards zip(*values) yields: that of the shortest v_split
NumShards(non_none) ==
  CHOOSE n \in {Len(non_none[k].v_split) : k \in DOMAIN non_none} :
    \A k \in DOMAIN non_none : n <= Len(non_none[k].v_split)

\* dict(zip(keys, shard_tensors)) of shard i
ShardAt(non_none, i) == [k \in DOMAIN non_none |-> non_none[k].v_split[i]]

\* the keyword arguments **shard passes to _compute_loss
ShardArgs(shard) == [k \in DOMAIN shard |-> Some(shard[k].data)]

\* the keyword arguments **shard_state passes to _compute_loss
StateArgs(state) ==
  [k \in DOMAIN state |->
     IF IsNone(state[k]) THEN None ELSE Some(Get(state[k]).data)]

\* the fields whose chunk receives a gradient from the backward of a shard's
\* loss: those that require one and that the loss was computed from
GradFields(shard) ==
  {k \in DOMAIN shard :
     /\ shard[k].requires_grad
     /\ \/ k = "output"
        \/ /\ "cos_sim" \in DOMAIN shard
           /\ k \in {"cos_sim", "doc_word_cos_sim", "graph", "mask_src"}}

\* variables of the last step of shards(): the fields that require a
\* gradient
Variables(non_none) == {k \in DOMAIN non_none : non_none[k].v.requires_grad}

\* an iteration that merges the statistics before it backpropagates
ShardEventsMergingFirst(k) ==
  << <<"loss", k>>, <<"update", k>>, <<"backward", k>> >>

\* what the body of the loop over the shards does for shard k, in order:
\* loss, stats = self._compute_loss(batch, **shard);
\* loss.div(float(normalization)).backward(); batch_stats.update(stats)
ShardEvents(k) == << <<"loss", k>>, <<"backward", k>>, <<"update", k>> >>

\* loss.div(float(normalization)).backward() for the loss of shard k
ScaledBackward(k, loss, normalization) ==
  [of |-> "loss", shard |-> k, value |-> DivBy(loss, normalization),
   inputs |-> {}]

\* the chunks of the gradient-requiring fields, as <<field, chunk number>>:
\* inputs of zip(*variables)
FinalInputs(non_none) ==
  UNION {{<<k, i>> : i \in 1..Len(non_none[k].v_split)} :
           k \in Variables(non_none)}

\* a test that is satisfied by one gradient that is not None
SomeGradPresent(non_none, chunk_grads) ==
  \E p \in FinalInputs(non_none) :
    p[2] <= Len(chunk_grads) /\ p[1] \in chunk_grads[p[2]]

\* None not in grads: every chunk of every gradient-requiring field has a
\* gradient (chunk_grads[i] is the set of fields whose chunk i has one)
NoGradMissing(non_none, chunk_grads) ==
  \A p \in FinalInputs(non_none) :
    p[2] <= Len(chunk_grads) /\ p[1] \in chunk_grads[p[2]]

\* torch.autograd.backward(inputs, grads, retain_graph=True)
FinalBackward(non_none) ==
  [of |-> "variables", shard |-> 0, value |-> Zero,
   inputs |-> FinalInputs(non_none)]

-----------------------------------------------------------------------------
(* The decoder's callers: sample inputs *)

\* num_layers of the decoders that are constructed
LayerCounts == {1, 2}
BatchSizes == {1, 2}
BeamSizes == {1, 2}
\* the index_select index lists the beam search reorders the state with
Selections == {<<1>>, <<1, 1>>, <<2, 1>>}

\* a [batch, SrcLen] token tensor: every example after the first is padded
SampleWords(batch) ==
  TokTensor(<<batch, SrcLen>>,
    [b \in 1..batch |->
       [j \in 1..SrcLen |-> IF b > 1 /\ j = SrcLen THEN PAD ELSE PAD + 1]])

\* a [batch, SrcLen] tensor of graph-node tokens, padded like SampleWords
SampleGraph(batch) ==
  TokTensor(<<batch, SrcLen>>,
    [b \in 1..batch |->
       [j \in 1..SrcLen |-> IF b > 1 /\ j = SrcLen THEN PAD ELSE PAD + 2]])

\* the rows of length len the decoder is run on: words only, or words with one
\* padding token, first or last
TargetRows(len) ==
  {[i \in 1..len |-> IF i = p THEN PAD ELSE PAD + 1] : p \in {0, 1, len}}

\* a [batch, len] target whose first example is row; the other examples are
\* the same row with its last token replaced by padding
SampleTarget(batch, row) ==
  TokTensor(<<batch, Len(row)>>,
    [b \in 1..batch |->
       [i \in 1..Len(row) |-> IF b > 1 /\ i = Len(row) THEN PAD ELSE row[i]]])

\* the encoder outputs the caller passes for a state: one vector per token
MemoryBank(name, words) ==
  FloatTensor(d_model,
    [b \in 1..words.shape[1] |->
       [j \in 1..words.shape[2] |-> Term(name, j, <<Embeddings(words.data[b][j])>>)]],
    TRUE)

\* the explicit [batch, 1, len] mask a caller may pass: the last position of
\* every example is masked
ExplicitMask(words) ==
  Seq3([b \in 1..words.shape[1] |->
          << [j \in 1..words.shape[2] |-> j = words.shape[2]] >>])

\* memory_masks / g_masks as the caller passes them: an explicit mask for a
\* batch of several examples, none for a single example
CallerMask(words) ==
  IF words.shape[1] > 1 THEN Some(ExplicitMask(words)) ELSE None

-----------------------------------------------------------------------------
(* The loss computation's callers: sample inputs *)

\* the kinds of example a batch is made of: 1 is predicted correctly and
\* has no padding, 2 ends with padding and has a node less than the graph
\* has rows, 3 has no node at all
ExampleKinds == {1, 2, 3}

\* the batches: 1..MaxBatch examples, listed by kind
Batches ==
  {kinds \in UNION {[1..n -> ExampleKinds] : n \in 1..MaxBatch} :
     \A b \in 1..(Len(kinds) - 1) : kinds[b] <= kinds[b + 1]}

ShardSizes == 1..MaxShardSize
Normalizations == {2}

\* the label_smoothing arguments, as fractions: 0.0, 0.1 and 1.1
LabelSmoothings == {<<0, 1>>, <<1, 10>>, <<11, 10>>}

\* batch.tgt of one example: MaxLen tokens, the first one the start token
SampleTgtRow(e) ==
  [i \in 1..MaxLen |->
     IF e # 1 /\ i = MaxLen THEN PAD ELSE ((i + e) % 2) + 1]

\* the decoder output of one example, by the token the generator predicts
\* from it: the target's tokens for kind 1, token 1 everywhere otherwise
SampleOutputRow(e) ==
  [t \in 1..(MaxLen - 1) |-> IF e = 1 THEN SampleTgtRow(e)[t + 1] ELSE 1]

SampleMaskSrcRow(e) ==
  [j \in 1..SrcLen |-> IF e # 1 /\ j = SrcLen THEN 0 ELSE 1]

\* doc_word_cos_sim of one example: a row of two scores per source token
SampleDocWordRow(e) == [j \in 1..SrcLen |-> <<e, j>>]

SampleNodeNum(e) == IF e = 1 THEN NumNodes ELSE IF e = 2 THEN NumNodes - 1 ELSE 0

\* cos_sim of one example: similarity 1 on the diagonal, 0 elsewhere
SampleCosSim(e) ==
  [i \in 1..NumNodes |-> [j \in 1..NumNodes |-> IF i = j THEN 1 ELSE 0]]

\* the adjacency labels of one example: every node is its own neighbour, and
\* in kind 2 the first node has no neighbour, itself included, and the other
\* nodes are all neighbours of each other
SampleGraphRows(e) ==
  [i \in 1..NumNodes |->
     [j \in 1..NumNodes |->
        IF e = 2 THEN (IF i = 1 \/ j = 1 THEN 0 ELSE 1)
        ELSE (IF i = j THEN 1 ELSE 0)]]

\* the tensor of a batch whose rows are row[e] of its examples e
SampleTensor(kinds, row, requires_grad) ==
  LossTensor([b \in 1..Len(kinds) |-> row[kinds[b]]], requires_grad)

\* the shard state _make_shard_state builds for a batch of the given kinds
SampleShardState(kinds, output_grad, with_cos_sim, with_doc_word) ==
  MakeShardState(
    [tgt |-> [b \in 1..Len(kinds) |-> SampleTgtRow(kinds[b])]],
    Some(SampleTensor(kinds, [e \in ExampleKinds |-> SampleOutputRow(e)], output_grad)),
    Some(SampleTensor(kinds, [e \in ExampleKinds |-> SampleMaskSrcRow(e)], FALSE)),
    Some(SampleTensor(kinds, [e \in ExampleKinds |-> SampleNodeNum(e)], FALSE)),
    Some(SampleTensor(kinds, [e \in ExampleKinds |-> SampleGraphRows(e)], FALSE)),
    IF with_cos_sim
    THEN Some(SampleTensor(kinds, [e \in ExampleKinds |-> SampleCosSim(e)], TRUE))
    ELSE None,
    IF with_doc_word
    THEN Some(SampleTensor(kinds, [e \in ExampleKinds |-> SampleDocWordRow(e)], TRUE))
    ELSE None)

-----------------------------------------------------------------------------
(* Citation subgraphs (src/src/prepro/data_builder.py) *)

\* The citation graph is a dictionary from a paper id to the row of the
\* corpus file with that id; of a row only its "references", a list of
\* paper ids, is read.  A dictionary is a function whose domain is its keys.
Papers == 1..NumPapers

NoRows == <<>>
NoGraphArgs == [paper_id |-> 0, n_hop |-> 0, max_neighbor_num |-> 0]

\* the lists of at most n references a row can hold: any papers, in any
\* order, a paper any number of times
ReferenceLists(n) == UNION {{Seq1(refs) : refs \in [1..k -> Papers]} : k \in 0..n}

\* the number of references of the rows of the papers 1..n
RECURSIVE NumReferences(_, _)
NumReferences(dict, n) ==
  IF n = 0 THEN 0
  ELSE NumReferences(dict, n - 1)
       + (IF n \in DOMAIN dict THEN Len(dict[n].references) ELSE 0)

\* the largest paper id that has a row so far
LastPaperRead(dict) ==
  IF DOMAIN dict = {} THEN 0
  ELSE CHOOSE k \in DOMAIN dict : \A j \in DOMAIN dict : j <= k

\* the elements of a list, as a set: set(l)
SetOf(l) == {l[i] : i \in DOMAIN l}

\* sub_graph = [[] for _ in range(n_hop + 1)]: the levels 0..n_hop
EmptyLevels(n_hop) == [lvl \in 0..n_hop |-> <<>>]

\* the references enqueued without the test "pid not in visited"
RECURSIVE EnqueueEveryReference(_, _, _, _, _)
EnqueueEveryReference(refs, lvl, vis, que, dict) ==
  IF refs = <<>> THEN [visited |-> vis, queue |-> que]
  ELSE IF Head(refs) \in DOMAIN dict
       THEN EnqueueEveryReference(Tail(refs), lvl, vis \cup {Head(refs)},
                                  Append(que, <<Head(refs), lvl>>), dict)
       ELSE EnqueueEveryReference(Tail(refs), lvl, vis, que, dict)

\* for pid in graph_strut_dict[paper_id_first]["references"]:
\*   if pid not in visited and pid in graph_strut_dict:
\*     q.append([pid, level_first + 1]); visited.add(pid)
RECURSIVE EnqueueReferences(_, _, _, _, _)
EnqueueReferences(refs, lvl, vis, que, dict) ==
  IF refs = <<>> THEN [visited |-> vis, queue |-> que]
  ELSE IF Head(refs) \notin vis /\ Head(refs) \in DOMAIN dict
       THEN EnqueueReferences(Tail(refs), lvl, vis \cup {Head(refs)},
                              Append(que, <<Head(refs), lvl>>), dict)
       ELSE EnqueueReferences(Tail(refs), lvl, vis, que, dict)

\* the test of max_neighbor if curr_node_num did not count the source paper
MaxNeighborReachedCountingSource(num, max_neighbor) == num > max_neighbor + 1

\* if curr_node_num > max_neighbor: return sub_graph
MaxNeighborReached(num, max_neighbor) == num > max_neighbor

\* for sub_g in k_nbrs: sub_graph_set += sub_g, over the levels 0..n
RECURSIVE ConcatLevels(_, _)
ConcatLevels(k_nbrs, n) ==
  IF n < 0 THEN <<>> ELSE ConcatLevels(k_nbrs, n - 1) \o k_nbrs[n]

\* the keys of a dictionary filled by "for node in l: d[node] = ...", in
\* iteration order: a key stays where it was first inserted
RECURSIVE InsertionOrder(_)
InsertionOrder(l) ==
  IF l = <<>> THEN <<>>
  ELSE The({IF l[Len(l)] \in SetOf(front) THEN front
            ELSE Append(front, l[Len(l)]) :
              front \in {InsertionOrder(SubSeq(l, 1, Len(l) - 1))}})

\* A subgraph dictionary: its keys in iteration order and the neighbour
\* list of each key.
NoSubGraphDict == [keys |-> <<>>, nbrs |-> <<>>]

\* for node in sub_graph_set: sub_graph_dict[node] = []
EmptySubGraphDict(nodes) ==
  [keys |-> InsertionOrder(nodes), nbrs |-> [node \in SetOf(nodes) |-> <<>>]]

\* list(set(...)): the members of a set in one of the orders the iteration
\* of a set can produce
ListsOfSet(S) ==
  {Seq1(l) : l \in {f \in [1..Cardinality(S) -> S] :
                      \A i, j \in 1..Cardinality(S) : f[i] = f[j] => i = j}}

\* sub_graph_dict[centre_node].extend(c_nbrs)
\* for c_nbr in c_nbrs: sub_graph_dict[c_nbr].append(centre_node)
LinkCentreNode(d, centre_node, c_nbrs) ==
  [d EXCEPT !.nbrs =
     [node \in DOMAIN d.nbrs |->
        (d.nbrs[node] \o (IF node = centre_node THEN c_nbrs ELSE <<>>))
        \o (IF node \in SetOf(c_nbrs) THEN <<centre_node>> ELSE <<>>)]]

\* for index, key_node in enumerate(graph_struct): pid2idx[key_node] = index
Pid2Idx(graph_struct) ==
  [key_node \in SetOf(graph_struct.keys) |->
     (CHOOSE i \in 1..Len(graph_struct.keys) : graph_struct.keys[i] = key_node) - 1]

\* the edges add_edges is given for the key at position i: one to each
\* neighbour of its list and then the self loop
EdgesOfKey(graph_struct, i) ==
  The({Seq1([j \in 1..(Len(l) + 1) |->
               <<i - 1, IF j <= Len(l) THEN Pid2Idx(graph_struct)[l[j]] ELSE i - 1>>]) :
         l \in {graph_struct.nbrs[graph_struct.keys[i]]}})

\* A DGL graph: the number of its nodes and its edges <<source, destination>>
\* in the order they were added.
NoDglGraph == [raised |-> "", nodes_num |-> 0, num_nodes |-> 0, edges |-> <<>>]

\* generate_dgl_graph(paper_id, graph_struct, nodes_num)
GenerateDglGraphOf(paper_id, graph_struct, nodes_num) ==
  IF Len(graph_struct.keys) # nodes_num
  THEN [NoDglGraph EXCEPT !.raised = "AssertionError", !.nodes_num = nodes_num]
  ELSE IF paper_id \notin SetOf(graph_struct.keys)
  THEN [NoDglGraph EXCEPT !.raised = "KeyError", !.nodes_num = nodes_num]
  ELSE IF Pid2Idx(graph_struct)[paper_id] # 0
  THEN [NoDglGraph EXCEPT !.raised = "AssertionError", !.nodes_num = nodes_num]
  ELSE IF \E key_node \in SetOf(graph_struct.keys) :
            ~(SetOf(graph_struct.nbrs[key_node]) \subseteq SetOf(graph_struct.keys))
  THEN [NoDglGraph EXCEPT !.raised = "KeyError", !.nodes_num = nodes_num]
  ELSE [raised |-> "", nodes_num |-> nodes_num,
        num_nodes |-> Len(graph_struct.keys),
        edges |-> Flatten(Seq1([i \in 1..Len(graph_struct.keys) |->
                                  EdgesOfKey(graph_struct, i)]))]

-----------------------------------------------------------------------------
(* State *)

ObjIds == {1, 2}
OtherId(o) == IF o = 1 THEN 2 ELSE 1

\* the heap in which object o holds state and the object the caller no
\* longer refers to has been collected
Held(o, state) == [x \in ObjIds |-> IF x = o THEN Some(state) ELSE None]

NoCall ==
  [op |-> "none", arg |-> 0, ret |-> 0, pre |-> None, tgt |-> None,
   with_cache |-> FALSE, output |-> None, all_inputs |-> <<>>,
   dec_masks |-> <<>>, layer_locals |-> <<>>, beam_size |-> 0, idx |-> <<>>]

NoSession == [clean |-> FALSE, toks |-> <<>>]

NoLossCall ==
  [mode |-> "none", shard_size |-> 0, normalization |-> 0,
   shard_state |-> [k \in ShardKeys |-> None], non_none |-> <<>>]

\* no loss computation was constructed yet
NotBuilt == [by |-> "none", train |-> FALSE, label_smoothing |-> <<0, 1>>]

Init ==
  /\ num_layers \in LayerCounts
  /\ heap = [o \in ObjIds |-> None]
  /\ cur = 0
  /\ last = NoCall
  /\ fed = NoSession
  /\ support_ops = 0
  /\ criterion = NoCriterion
  /\ built = NotBuilt
  /\ loss_pc = "new"
  /\ loss_call = NoLossCall
  /\ yielded = <<>>
  /\ shard_losses = <<>>
  /\ grads = <<>>
  /\ batch_stats = EmptyStatistics
  /\ events = <<>>
  /\ backward_calls = <<>>
  /\ graph_pc = "loading"
  /\ graph_strut_dict = NoRows
  /\ graph_args = NoGraphArgs
  /\ sub_graph = <<>>
  /\ visited = {}
  /\ queue = <<>>
  /\ curr_node_num = 0
  /\ sub_graph_set = <<>>
  /\ centre_at = 0
  /\ sub_graph_dict = NoSubGraphDict
  /\ dgl_graph = NoDglGraph

\* the number of time steps a state has accumulated
HistoryLen(state) ==
  IF ~IsNone(state.cache)
  THEN IF IsNone(Get(state.cache)[0].self_keys) THEN 0
       ELSE Get(Get(state.cache)[0].self_keys).shape[2]
  ELSE IF IsNone(state.previous_layer_inputs) THEN 0
       ELSE Get(state.previous_layer_inputs)[1].shape[2]

\* the batch size of what a state has accumulated (0: nothing yet)
HistoryBatch(state) ==
  IF ~IsNone(state.cache)
  THEN IF IsNone(Get(state.cache)[0].self_keys) THEN 0
       ELSE Get(Get(state.cache)[0].self_keys).shape[1]
  ELSE IF IsNone(state.previous_layer_inputs) THEN 0
       ELSE Get(state.previous_layer_inputs)[1].shape[1]

\* whether the caller passes step (the number of steps so far) or leaves it
\* None: a call that continues a history passes it
StepChoices(state) == IF HistoryLen(state) = 0 THEN BOOLEAN ELSE {TRUE}

\* forward(tgt, ..., state, step) completes without raising: src and g_src
\* unpack into two sizes, the batch sizes agree, the subsequent-mask buffer
\* covers the target, and a cache that holds earlier steps is extended by one
\* token
ForwardCompletes(state, tgt) ==
  /\ Len(state.src.shape) = 2
  /\ Len(state.g_src.shape) = 2
  /\ state.src.shape[1] = tgt.shape[1]
  /\ state.g_src.shape[1] = tgt.shape[1]
  /\ tgt.shape[2] <= MAX_SIZE
  /\ HistoryBatch(state) \in {0, tgt.shape[1]}
  /\ (~IsNone(state.cache) /\ HistoryLen(state) > 0) => tgt.shape[2] = 1

-----------------------------------------------------------------------------
(* Operations *)

\* state = decoder.init_decoder_state(src, g_src, with_cache)
InitDecoderState ==
  /\ cur = 0
  /\ \E batch \in BatchSizes, with_cache \in BOOLEAN :
       LET new == 1
           state == InitDecoderStateOf(SampleWords(batch), SampleGraph(batch),
                                       with_cache, num_layers)
       IN /\ heap' = [heap EXCEPT ![new] = Some(state)]
          /\ cur' = new
          /\ last' = [NoCall EXCEPT !.op = "init", !.ret = new,
                                    !.with_cache = with_cache]
          /\ fed' = [clean |-> with_cache,
                     toks |-> Seq1([b \in 1..batch |-> <<>>])]
  /\ UNCHANGED <<num_layers, support_ops, loss_vars, graph_vars>>

\* output, state = decoder(tgt, memory_bank, g_memory, state, step=step,
\*                         memory_masks=..., g_masks=...)
\* Without a cache the returned state is a new object and the caller goes on
\* with it; with a cache it is the argument.
Forward ==
  /\ cur # 0
  /\ \E len \in 1..MaxLen :
     \E row \in TargetRows(len) :
     \E state \in {Get(heap[cur])} :
     \E stepped \in StepChoices(state) :
     \E tgt \in {SampleTarget(state.src.shape[1], row)} :
       /\ Len(state.src.shape) = 2
       /\ ForwardCompletes(state, tgt)
       /\ HistoryLen(state) + len <= MaxLen
       /\ \E r \in {DecoderForward(num_layers, tgt,
                      MemoryBank("mem", state.src),
                      MemoryBank("gmem", state.g_src), state,
                      IF stepped THEN Some(HistoryLen(state)) ELSE None,
                      CallerMask(state.src), CallerMask(state.g_src))} :
          \E ret \in {IF IsNone(state.cache) THEN OtherId(cur) ELSE cur} :
            /\ heap' = [Held(cur, state) EXCEPT ![ret] = Some(r.state)]
            /\ cur' = ret
            /\ last' = [NoCall EXCEPT !.op = "forward", !.arg = cur,
                          !.ret = ret, !.pre = Some(state), !.tgt = Some(tgt),
                          !.output = Some(r.output),
                          !.all_inputs = r.all_inputs,
                          !.dec_masks = r.dec_masks,
                          !.layer_locals = r.layer_locals]
            /\ fed' = IF /\ fed.clean
                         /\ len = 1
                         /\ (stepped \/ HistoryLen(state) = 0)
                      THEN [fed EXCEPT !.toks =
                              Seq1([b \in 1..Len(@) |->
                                      Append(@[b], tgt.data[b][1])])]
                      ELSE NoSession
  /\ UNCHANGED <<num_layers, support_ops, loss_vars, graph_vars>>

\* state.detach()
Detach ==
  /\ cur # 0
  /\ support_ops < MaxSupportOps
  /\ heap' = Held(cur, DetachState(Get(heap[cur])))
  /\ last' = [NoCall EXCEPT !.op = "detach", !.arg = cur, !.ret = cur,
                            !.pre = heap[cur]]
  /\ support_ops' = support_ops + 1
  /\ UNCHANGED <<num_layers, cur, fed, loss_vars, graph_vars>>

\* state.repeat_beam_size_times(beam_size)
RepeatBeam ==
  /\ cur # 0
  /\ support_ops < MaxSupportOps
  /\ \E beam_size \in BeamSizes :
       LET state == Get(heap[cur])
           new == RepeatBeamSizeTimes(state, beam_size)
       IN /\ new.g_src.shape[2] <= MaxRows
          /\ heap' = Held(cur, new)
          /\ last' = [NoCall EXCEPT !.op = "repeat_beam_size_times",
                                    !.arg = cur, !.ret = cur,
                                    !.pre = heap[cur],
                                    !.beam_size = beam_size]
  /\ fed' = NoSession
  /\ support_ops' = support_ops + 1
  /\ UNCHANGED <<num_layers, cur, loss_vars, graph_vars>>

\* state.map_batch_fn(fn), fn an index_select along the batch axis; the
\* indices are indices of every tensor fn is applied to
MapBatch ==
  /\ cur # 0
  /\ support_ops < MaxSupportOps
  /\ \E idx \in Selections :
       LET state == Get(heap[cur])
           sizes == {state.src.shape[1], state.g_src.shape[1]}
                      \cup ({HistoryBatch(state)} \ {0})
       IN /\ \A k \in 1..Len(idx) : \A n \in sizes : idx[k] <= n
          /\ heap' = Held(cur, MapBatchFn(state, idx))
          /\ last' = [NoCall EXCEPT !.op = "map_batch_fn", !.arg = cur,
                                    !.ret = cur, !.pre = heap[cur],
                                    !.idx = idx]
  /\ fed' = NoSession
  /\ support_ops' = support_ops + 1
  /\ UNCHANGED <<num_layers, cur, loss_vars, graph_vars>>

Next ==
  \/ InitDecoderState
  \/ Forward
  \/ Detach
  \/ RepeatBeam
  \/ MapBatch

Spec == Init /\ [][Next]_vars

-----------------------------------------------------------------------------
(* Operations of the loss computation *)

\* NMTLossCompute(generator, symbols, vocab_size, label_smoothing): the
\* criterion is built; the assertion of LabelSmoothingLoss may fail
NewNMTLossCompute ==
  /\ loss_pc = "new"
  /\ \E label_smoothing \in LabelSmoothings :
     \E c \in {NewCriterion(label_smoothing)} :
       /\ built' = [by |-> "NMTLossCompute", train |-> TRUE,
                    label_smoothing |-> label_smoothing]
       /\ criterion' = c
       /\ loss_pc' = IF c.kind = "AssertionError" THEN "raised" ELSE "idle"
  /\ UNCHANGED <<decoder_vars, graph_vars, loss_call, yielded, shard_losses, grads,
                 batch_stats, events, backward_calls>>

\* abs_loss(generator, symbols, vocab_size, device, train, label_smoothing)
AbsLoss ==
  /\ loss_pc = "new"
  /\ \E train \in BOOLEAN, label_smoothing \in LabelSmoothings :
     \E c \in {NewCriterion(AbsLossSmoothing(train, label_smoothing))} :
       /\ built' = [by |-> "abs_loss", train |-> train,
                    label_smoothing |-> label_smoothing]
       /\ criterion' = c
       /\ loss_pc' = IF c.kind = "AssertionError" THEN "raised" ELSE "idle"
  /\ UNCHANGED <<decoder_vars, graph_vars, loss_call, yielded, shard_losses, grads,
                 batch_stats, events, backward_calls>>

\* batch_stats = compute.monolithic_compute_loss(batch, output, mask_src,
\*                 node_num, mask_graph, cos_sim, doc_word_cos_sim)
MonolithicComputeLoss ==
  /\ loss_pc = "idle"
  /\ \E kinds \in Batches, output_grad \in BOOLEAN,
        with_cos_sim \in BOOLEAN, with_doc_word \in BOOLEAN :
     \E state \in {SampleShardState(kinds, output_grad, with_cos_sim,
                                    with_doc_word)} :
       /\ loss_call' = [NoLossCall EXCEPT !.mode = "monolithic",
                                          !.shard_state = state]
       /\ IF ComputeLossRaises(StateArgs(state))
          THEN /\ loss_pc' = "raised"
               /\ UNCHANGED <<batch_stats, events>>
          ELSE /\ loss_pc' = "returned"
               /\ batch_stats' = ComputeLoss(StateArgs(state)).stats
               /\ events' = Append(events, <<"loss", 0>>)
  /\ UNCHANGED <<decoder_vars, graph_vars, build_vars, yielded, shard_losses, grads, backward_calls>>

\* compute.sharded_compute_loss(batch, output, shard_size, normalization,
\*   mask_src, node_num, graph, cos_sim, doc_word_cos_sim), up to the loop:
\* batch_stats = Statistics(), the shard state, and its chunks
ShardedComputeLoss ==
  /\ loss_pc = "idle"
  /\ \E kinds \in Batches, output_grad \in BOOLEAN,
        with_cos_sim \in BOOLEAN, with_doc_word \in BOOLEAN,
        shard_size \in ShardSizes, normalization \in Normalizations :
     \E state \in {SampleShardState(kinds, output_grad, with_cos_sim,
                                    with_doc_word)} :
       loss_call' = [mode |-> "sharded", shard_size |-> shard_size,
                     normalization |-> normalization, shard_state |-> state,
                     non_none |-> FilterShardState(state, shard_size)]
  /\ loss_pc' = "shards"
  /\ batch_stats' = EmptyStatistics
  /\ UNCHANGED <<decoder_vars, graph_vars, build_vars, yielded, shard_losses, grads, events,
                 backward_calls>>

\* one iteration of `for shard in shards(shard_state, shard_size)`: the next
\* shard is yielded, its loss computed, scaled and backpropagated, and its
\* statistics merged
NextShard ==
  /\ loss_pc = "shards"
  /\ Len(yielded) < NumShards(loss_call.non_none)
  /\ \E k \in {Len(yielded) + 1} :
     \E shard \in {ShardAt(loss_call.non_none, Len(yielded) + 1)} :
       /\ yielded' = Append(yielded, shard)
       /\ IF ComputeLossRaises(ShardArgs(shard))
          THEN /\ loss_pc' = "raised"
               /\ UNCHANGED <<shard_losses, grads, batch_stats, events,
                              backward_calls>>
          ELSE \E r \in {ComputeLoss(ShardArgs(shard))} :
                 /\ loss_pc' = "shards"
                 /\ shard_losses' = Append(shard_losses, r.loss)
                 /\ grads' = Append(grads, GradFields(shard))
                 /\ batch_stats' = UpdateStatistics(batch_stats, r.stats)
                 /\ events' = events \o ShardEvents(k)
                 /\ backward_calls' =
                      Append(backward_calls,
                             ScaledBackward(k, r.loss,
                                            loss_call.normalization))
  /\ UNCHANGED <<decoder_vars, graph_vars, build_vars, loss_call>>

\* the end of shards() after the last shard, and the return of
\* sharded_compute_loss: zip(*variables) raises when no field requires a
\* gradient; the backward from the unsharded tensors runs when no chunk's
\* gradient is None
FinishShards ==
  /\ loss_pc = "shards"
  /\ Len(yielded) = NumShards(loss_call.non_none)
  /\ IF Variables(loss_call.non_none) = {}
     THEN /\ loss_pc' = "raised"
          /\ UNCHANGED <<events, backward_calls>>
     ELSE /\ loss_pc' = "returned"
          /\ IF NoGradMissing(loss_call.non_none, grads)
             THEN /\ events' = Append(events, <<"final_backward", 0>>)
                  /\ backward_calls' =
                       Append(backward_calls,
                              FinalBackward(loss_call.non_none))
             ELSE UNCHANGED <<events, backward_calls>>
  /\ UNCHANGED <<decoder_vars, graph_vars, build_vars, loss_call, yielded, shard_losses, grads,
                 batch_stats>>

LossNext ==
  \/ AbsLoss
  \/ NewNMTLossCompute
  \/ MonolithicComputeLoss
  \/ ShardedComputeLoss
  \/ NextShard
  \/ FinishShards

LossSpec == Init /\ [][LossNext]_vars

-----------------------------------------------------------------------------
(* Operations of the preprocessing of the citation graph *)

\* format_cite: for ins in json_main: graph_strut_dict[ins["paper_id"]] = ins,
\* for the next row of the corpus file (the rows are in the order of their
\* paper ids)
ReadRow ==
  /\ graph_pc = "loading"
  /\ LastPaperRead(graph_strut_dict) < NumPapers
  /\ \E paper_id \in {LastPaperRead(graph_strut_dict) + 1} :
     \E refs \in ReferenceLists(MaxEdges - NumReferences(graph_strut_dict, NumPapers)) :
       graph_strut_dict' = graph_strut_dict @@ (paper_id :> [references |-> refs])
  /\ UNCHANGED <<graph_pc, graph_args, k_hop_vars, struct_vars, dgl_graph>>
  /\ UNCHANGED <<decoder_vars, loss_vars>>

\* generate_graph_structs(args, paper_id, graph_strut_dict) for a row of the
\* corpus, up to the first test of the loop of _k_hop_neighbor
GenerateGraphStructs ==
  /\ graph_pc = "loading"
  /\ \E paper_id \in DOMAIN graph_strut_dict :
     \E n_hop \in 0..MaxHop :
     \E max_neighbor_num \in 0..MaxNeighbor :
       /\ graph_args' = [paper_id |-> paper_id, n_hop |-> n_hop,
                         max_neighbor_num |-> max_neighbor_num]
       /\ sub_graph' = EmptyLevels(n_hop)
       /\ queue' = << <<paper_id, 0>> >>
  /\ visited' = {}
  /\ curr_node_num' = 0
  /\ graph_pc' = "k_hop"
  /\ UNCHANGED <<graph_strut_dict, struct_vars, dgl_graph>>
  /\ UNCHANGED <<decoder_vars, loss_vars>>

\* _k_hop_neighbor: one pass of "while len(q) != 0"
KHopNeighborStep ==
  /\ graph_pc = "k_hop"
  /\ queue # <<>>
  /\ \E paper_id_first \in {Head(queue)[1]} :
     \E level_first \in {Head(queue)[2]} :
       IF level_first > graph_args.n_hop
       THEN /\ graph_pc' = "k_nbrs"
            /\ queue' = Tail(queue)
            /\ UNCHANGED <<sub_graph, curr_node_num, visited>>
       ELSE /\ sub_graph' = [sub_graph EXCEPT ![level_first] = Append(@, paper_id_first)]
            /\ curr_node_num' = curr_node_num + 1
            /\ IF MaxNeighborReached(curr_node_num + 1, graph_args.max_neighbor_num)
               THEN /\ graph_pc' = "k_nbrs"
                    /\ queue' = Tail(queue)
                    /\ UNCHANGED visited
               ELSE IF paper_id_first \notin DOMAIN graph_strut_dict
               THEN /\ graph_pc' = "raised"
                    /\ queue' = Tail(queue)
                    /\ visited' = visited \cup {paper_id_first}
               ELSE \E r \in {EnqueueReferences(
                                graph_strut_dict[paper_id_first].references,
                                level_first + 1, visited \cup {paper_id_first},
                                Tail(queue), graph_strut_dict)} :
                      /\ visited' = r.visited
                      /\ queue' = r.queue
                      /\ UNCHANGED graph_pc
  /\ UNCHANGED <<graph_strut_dict, graph_args, struct_vars, dgl_graph>>
  /\ UNCHANGED <<decoder_vars, loss_vars>>

\* _k_hop_neighbor: the queue is empty, return sub_graph
KHopNeighborReturn ==
  /\ graph_pc = "k_hop"
  /\ queue = <<>>
  /\ graph_pc' = "k_nbrs"
  /\ UNCHANGED <<graph_strut_dict, graph_args, k_hop_vars, struct_vars, dgl_graph>>
  /\ UNCHANGED <<decoder_vars, loss_vars>>

\* generate_graph_structs: sub_graph_set and the empty neighbour lists
CollectSubGraph ==
  /\ graph_pc = "k_nbrs"
  /\ \E nodes \in {ConcatLevels(sub_graph, graph_args.n_hop)} :
       /\ sub_graph_set' = nodes
       /\ sub_graph_dict' = EmptySubGraphDict(nodes)
  /\ centre_at' = 1
  /\ graph_pc' = "centre"
  /\ UNCHANGED <<graph_strut_dict, graph_args, k_hop_vars, dgl_graph>>
  /\ UNCHANGED <<decoder_vars, loss_vars>>

\* generate_graph_structs: one pass of "for centre_node in sub_g"
AddCentreNode ==
  /\ graph_pc = "centre"
  /\ centre_at <= Len(sub_graph_set)
  /\ \E centre_node \in {sub_graph_set[centre_at]} :
       IF centre_node \notin DOMAIN graph_strut_dict
       THEN /\ graph_pc' = "raised"
            /\ UNCHANGED <<centre_at, sub_graph_dict>>
       ELSE \E c_nbrs \in ListsOfSet(SetOf(graph_strut_dict[centre_node].references)
                                       \cap SetOf(sub_graph_set)) :
              /\ sub_graph_dict' = LinkCentreNode(sub_graph_dict, centre_node, c_nbrs)
              /\ centre_at' = centre_at + 1
              /\ UNCHANGED graph_pc
  /\ UNCHANGED <<graph_strut_dict, graph_args, k_hop_vars, sub_graph_set, dgl_graph>>
  /\ UNCHANGED <<decoder_vars, loss_vars>>

\* generate_graph_structs: return sub_graph_dict
ReturnSubGraphDict ==
  /\ graph_pc = "centre"
  /\ centre_at > Len(sub_graph_set)
  /\ graph_pc' = "returned"
  /\ UNCHANGED <<graph_strut_dict, graph_args, k_hop_vars, struct_vars, dgl_graph>>
  /\ UNCHANGED <<decoder_vars, loss_vars>>

\* _format_cite: generate_dgl_graph(pid, sub_graph_dict, node_num); node_num
\* is the number of graph inputs plus one
GenerateDglGraph ==
  /\ graph_pc = "returned"
  /\ \E nodes_num \in {1, Len(sub_graph_dict.keys)} :
     \E built_graph \in {GenerateDglGraphOf(graph_args.paper_id, sub_graph_dict, nodes_num)} :
       /\ dgl_graph' = built_graph
       /\ graph_pc' = IF built_graph.raised = "" THEN "done" ELSE "raised"
  /\ UNCHANGED <<graph_strut_dict, graph_args, k_hop_vars, struct_vars>>
  /\ UNCHANGED <<decoder_vars, loss_vars>>

GraphNext ==
  \/ ReadRow
  \/ GenerateGraphStructs
  \/ KHopNeighborStep
  \/ KHopNeighborReturn
  \/ CollectSubGraph
  \/ AddCentreNode
  \/ ReturnSubGraphDict
  \/ GenerateDglGraph

\* the preprocessing builds no decoder
GraphInit == Init /\ num_layers = 1

GraphSpec == GraphInit /\ [][GraphNext]_vars

\* a call that was started runs on: each step of _k_hop_neighbor that can be
\* taken is taken
GraphFairSpec ==
  GraphSpec /\ WF_vars(KHopNeighborStep) /\ WF_vars(KHopNeighborReturn)

-----------------------------------------------------------------------------
(* Properties of the decoder and its state *)

\* the state object the caller holds
Held1 == Get(heap[cur])
\* the last call was a forward on a state without (with) a cache
NoCacheForward ==
  last.op = "forward" /\ IsNone(Get(last.pre).cache)
CachedForward ==
  last.op = "forward" /\ ~IsNone(Get(last.pre).cache)

\* one forward without a cache over all the tokens a cached session was fed,
\* on a fresh state of the same src and g_src
PrefixForward ==
  The({DecoderForward(num_layers,
         TokTensor(<<Len(fed.toks), Len(fed.toks[1])>>, fed.toks),
         MemoryBank("mem", state.src), MemoryBank("gmem", state.g_src),
         InitDecoderStateOf(state.src, state.g_src, FALSE, num_layers),
         None, CallerMask(state.src), CallerMask(state.g_src)) :
       state \in {Held1}})

\* the cached session fed at least one token, one per call, step = 0, 1, ...
InCachedSession == fed.clean /\ CachedForward

\* C1: after every step of a cached session that feeds the target one token
\* at a time, the output of the step is the output one forward without a
\* cache over the tokens fed so far has at that position.
CachedMatchesPrefixForward ==
  InCachedSession =>
    \E full \in {PrefixForward.output} :
      \A b \in 1..Len(fed.toks) :
        Get(last.output).data[b][1] = full.data[b][Len(fed.toks[b])]

\* the state objects that are alive
LiveStates == {Get(heap[o]) : o \in {x \in ObjIds : ~IsNone(heap[x])}}

\* C2: in every state object the history fields and the cache are never both
\* set, and previous_input is set exactly when previous_layer_inputs is.
HistoryXorCache ==
  \A state \in LiveStates :
    /\ ~(~IsNone(state.previous_input) /\ ~IsNone(state.cache))
    /\ ~(~IsNone(state.previous_layer_inputs) /\ ~IsNone(state.cache))
    /\ IsNone(state.previous_input) <=> IsNone(state.previous_layer_inputs)

\* states of all three modes have gone through forward and a support call
ModesReached ==
  /\ cur # 0
  /\ last.op \in {"detach", "repeat_beam_size_times", "map_batch_fn"}
  /\ HistoryLen(Held1) > 0

\* C3: a call on a state with a cache returns that very object, whose cache
\* still has the num_layers layer keys and whose previous_input and
\* previous_layer_inputs are still None.
CachedStaysCached ==
  (last.op # "none" /\ ~IsNone(last.pre) /\ ~IsNone(Get(last.pre).cache)) =>
    /\ last.ret = last.arg
    /\ cur = last.arg
    /\ ~IsNone(Held1.cache)
    /\ DOMAIN Get(Held1.cache) = LayerKeys(num_layers)
    /\ DOMAIN Get(Held1.cache) = DOMAIN Get(Get(last.pre).cache)
    /\ IsNone(Held1.previous_input)
    /\ IsNone(Held1.previous_layer_inputs)

\* a second cached forward has returned
CachedTwice == CachedForward /\ HistoryLen(Get(last.pre)) > 0

\* C4: a forward without a cache returns an output of shape
\* [batch, tgt_len, model_dim] and a state whose previous_layer_inputs has
\* num_layers entries, entry i the all_input layer i returned.
NoCacheForwardResult ==
  NoCacheForward =>
    /\ Get(last.output).shape =
         <<Get(last.tgt).shape[1], Get(last.tgt).shape[2], d_model>>
    /\ Len(Get(last.output).data) = Get(last.tgt).shape[1]
    /\ \A b \in 1..Get(last.tgt).shape[1] :
         Len(Get(last.output).data[b]) = Get(last.tgt).shape[2]
    /\ Len(last.all_inputs) = num_layers
    /\ ~IsNone(Get(heap[last.ret]).previous_layer_inputs)
    /\ Len(Get(Get(heap[last.ret]).previous_layer_inputs)) = num_layers
    /\ \A i \in 1..num_layers :
         Get(Get(heap[last.ret]).previous_layer_inputs)[i] = last.all_inputs[i]

\* a decoder of two layers ran a forward without a cache over two tokens
TwoLayerForward ==
  NoCacheForward /\ num_layers = 2 /\ Get(last.tgt).shape[2] >= 2

\* C5: a forward without a cache leaves the state it was given as it was and
\* returns a new object with the same src and g_src, previous_input the
\* target of this call, and no cache.
NoCacheForwardFrame ==
  NoCacheForward =>
    /\ last.ret # last.arg
    /\ heap[last.arg] = last.pre
    /\ Get(heap[last.ret]).src = Get(last.pre).src
    /\ Get(heap[last.ret]).g_src = Get(last.pre).g_src
    /\ Get(heap[last.ret]).previous_input = last.tgt
    /\ IsNone(Get(heap[last.ret]).cache)

\* a forward without a cache ran on a state that had a history
ForwardOnHistory ==
  NoCacheForward /\ ~IsNone(Get(last.pre).previous_input)

\* C6: a forward without a cache over t tokens on a state with a history of
\* h steps leaves every layer a history of h + t steps, the first h of them
\* the ones it had.
HistoryGrows ==
  (NoCacheForward /\ ~IsNone(Get(last.pre).previous_layer_inputs)) =>
    \A i \in 1..num_layers :
      \E old \in {Get(Get(last.pre).previous_layer_inputs)[i]} :
      \E new \in {Get(Get(heap[last.ret]).previous_layer_inputs)[i]} :
        /\ new.shape[2] = old.shape[2] + Get(last.tgt).shape[2]
        /\ \A b \in 1..Len(new.data) :
             /\ Len(new.data[b]) = old.shape[2] + Get(last.tgt).shape[2]
             /\ SubSeq(new.data[b], 1, old.shape[2]) = old.data[b]

\* a history of one step was extended by two tokens
HistoryExtended ==
  /\ ForwardOnHistory
  /\ HistoryLen(Get(last.pre)) = 1
  /\ Get(last.tgt).shape[2] = 2

\* C7: init_decoder_state returns a state whose previous_input and
\* previous_layer_inputs are None and whose cache is None without with_cache,
\* and with it one record per layer 0..num_layers-1 of the six slots
\* self_keys, self_values, memory_keys, memory_values, g_memory_keys,
\* g_memory_values, all None.
InitialState ==
  last.op = "init" =>
    /\ IsNone(Held1.previous_input)
    /\ IsNone(Held1.previous_layer_inputs)
    /\ ~last.with_cache => IsNone(Held1.cache)
    /\ last.with_cache =>
         /\ ~IsNone(Held1.cache)
         /\ DOMAIN Get(Held1.cache) = 0..(num_layers - 1)
         /\ \A l \in 0..(num_layers - 1) :
              /\ DOMAIN Get(Held1.cache)[l] =
                   {"self_keys", "self_values", "memory_keys", "memory_values",
                    "g_memory_keys", "g_memory_values"}
              /\ \A k \in DOMAIN Get(Held1.cache)[l] :
                   IsNone(Get(Held1.cache)[l][k])

\* a state with a cache was initialised for a decoder of two layers
InitialisedWithCache ==
  last.op = "init" /\ last.with_cache /\ num_layers = 2

\* C8: when a layer is called without previous input, entry (i, j) of the
\* self-attention mask is set for every j > i, and for j <= i exactly when
\* target position j is padding.
CausalPadMask ==
  (last.op = "forward" /\ IsNone(Get(last.pre).previous_input)) =>
    \A l \in 1..num_layers :
      /\ ~IsNone(last.dec_masks[l])
      /\ \E mask \in {Get(last.dec_masks[l])}, tgt \in {Get(last.tgt)} :
           /\ Len(mask) = tgt.shape[1]
           /\ \A b \in 1..tgt.shape[1] :
                /\ Len(mask[b]) = tgt.shape[2]
                /\ \A i \in 1..tgt.shape[2] :
                     /\ Len(mask[b][i]) = tgt.shape[2]
                     /\ \A j \in 1..tgt.shape[2] :
                          /\ j > i => mask[b][i][j]
                          /\ j <= i =>
                               (mask[b][i][j] <=> tgt.data[b][j] = PAD)

\* a fresh state ran a forward over a target whose first token is padding
MaskedPaddingBelowDiagonal ==
  /\ last.op = "forward"
  /\ IsNone(Get(last.pre).previous_input)
  /\ Get(last.tgt).shape[2] = MaxLen
  /\ Get(last.tgt).data[1][1] = PAD

-----------------------------------------------------------------------------
(* Properties of the loss computation *)

\* sharded_compute_loss has returned
ShardedReturned == loss_call.mode = "sharded" /\ loss_pc = "returned"

\* what _compute_loss gives for the whole batch at once, as
\* monolithic_compute_loss calls it
MonolithicLoss == ComputeLoss(StateArgs(loss_call.shard_state))

\* C9: when sharded_compute_loss has returned, the losses of its shards sum
\* to the loss of the whole batch computed at once.
ShardedLossIsMonolithicLoss ==
  ShardedReturned => SumOf(shard_losses) = MonolithicLoss.loss

\* the least n with n * s >= b
CeilDiv(b, s) == CHOOSE n \in 0..b : n * s >= b /\ (n - 1) * s < b

\* C10: for a shard state whose tensors all have batch size B, shards()
\* yields ceil(B / shard_size) shards, and shard k (counted from 0) holds of
\* every field that is not None the examples
\* k * shard_size .. min((k + 1) * shard_size, B) - 1.
ShardsAreContiguousChunks ==
  loss_call.mode = "sharded" =>
    \E state \in {loss_call.shard_state}, s \in {loss_call.shard_size} :
    \E B \in {Len(Get(state.output).data)} :
      (\A key \in ShardKeys :
         ~IsNone(state[key]) => Len(Get(state[key]).data) = B) =>
        /\ NumShards(loss_call.non_none) = CeilDiv(B, s)
        /\ Len(yielded) <= CeilDiv(B, s)
        /\ loss_pc = "returned" => Len(yielded) = CeilDiv(B, s)
        /\ \A i \in 1..Len(yielded) :
             /\ DOMAIN yielded[i] = {key \in ShardKeys : ~IsNone(state[key])}
             /\ \A key \in DOMAIN yielded[i] :
                  /\ yielded[i][key].data =
                       [n \in 1..(Min(i * s, B) - (i - 1) * s) |->
                          Get(state[key]).data[(i - 1) * s + n]]
                  /\ i < CeilDiv(B, s) => Len(yielded[i][key].data) = s
                  /\ Len(yielded[i][key].data) >= 1

\* a batch of three examples was cut into a shard of two and a shard of one
UnevenShardsYielded ==
  /\ ShardedReturned
  /\ loss_call.shard_size = 2
  /\ Len(yielded) = 2
  /\ Len(yielded[1].output.data) = 2
  /\ Len(yielded[2].output.data) = 1

\* the number of shards whose loss has been computed
ShardsDone == Len(shard_losses)

\* the final backward pass has run
FinalBackwardRan == Len(events) = 3 * ShardsDone + 1

ShardsEnded ==
  /\ loss_call.mode = "sharded"
  /\ loss_pc \in {"returned", "raised"}
  /\ ShardsDone = NumShards(loss_call.non_none)

\* the gradient of some chunk of some gradient-requiring field is None
SomeGradMissing ==
  \E k \in DOMAIN loss_call.non_none :
    /\ loss_call.non_none[k].v.requires_grad
    /\ \E i \in 1..Len(loss_call.non_none[k].v_split) : k \notin grads[i]

\* the backward passes that were run from the unsharded tensors
FinalBackwardCalls ==
  {i \in 1..Len(backward_calls) : backward_calls[i].of = "variables"}

\* C12: at the end of shards() with some field requiring a gradient, when the
\* gradient of any chunk of any such field is None no final backward pass is
\* run and the call returns without raising; when none is missing the final
\* backward pass is run on every chunk of every gradient-requiring field.
FinalBackwardSkippedWhenGradMissing ==
  (ShardsEnded /\ Variables(loss_call.non_none) # {}) =>
    /\ loss_pc = "returned"
    /\ SomeGradMissing => FinalBackwardCalls = {}
    /\ ~SomeGradMissing =>
         /\ FinalBackwardCalls = {Len(backward_calls)}
         /\ backward_calls[Len(backward_calls)].inputs =
              {<<k, i>> \in (DOMAIN loss_call.non_none) \X (1..MaxBatch) :
                 /\ loss_call.non_none[k].v.requires_grad
                 /\ i <= Len(loss_call.non_none[k].v_split)}

\* a sharded call has returned without its final backward pass: output has
\* its gradients and the chunks of doc_word_cos_sim have none
ReturnedWithGradMissing ==
  /\ ShardsEnded
  /\ loss_pc = "returned"
  /\ ShardsDone >= 2
  /\ "output" \in grads[1]
  /\ SomeGradMissing
  /\ FinalBackwardCalls = {}

\* the document-word term computed from doc_word_cos_sim when it is given
\* and the graph term computed from cos_sim when it is given, each 0 when its
\* own input is None
OwnContrastiveTerms(a) ==
  [doc_word |->
     IF IsNone(a.doc_word_cos_sim) THEN Zero
     ELSE DocWordContrast(Get(a.doc_word_cos_sim), Get(a.mask_src)),
   contra |->
     IF IsNone(a.cos_sim) THEN Zero
     ELSE NContrast(Get(a.cos_sim), Get(a.graph),
                    [b \in 1..Len(Get(a.node_num)) |->
                       MaskGraph(Get(a.node_num)[b], Len(Get(a.cos_sim)[b]))])]

\* the primary loss of the arguments a of _compute_loss
PrimaryLoss(a) == Criterion(Flatten(Get(a.output)), Flatten(Get(a.target)))

\* C13: for each of the four combinations of cos_sim and doc_word_cos_sim
\* being given or None, _compute_loss returns the primary loss plus the
\* document-word term plus the graph term, where the document-word term is
\* computed from doc_word_cos_sim when it is given and 0 when it is None, and
\* the graph term is computed from cos_sim when it is given and 0 when it is
\* None.
LossIsPrimaryPlusOwnTerms ==
  loss_call.mode = "sharded" =>
    \A i \in 1..Len(yielded) :
      /\ i <= Len(shard_losses)
      /\ \E a \in {WithDefaults(ShardArgs(yielded[i]))} :
         \E c \in {OwnContrastiveTerms(a)} :
           shard_losses[i] = Plus(Plus(PrimaryLoss(a), c.doc_word), c.contra)

\* monolithic_compute_loss has returned from a call with cos_sim
MonolithicWithCosSim ==
  /\ loss_call.mode = "monolithic"
  /\ loss_pc = "returned"
  /\ ~IsNone(loss_call.shard_state.cos_sim)

\* the tensors of the call in progress
CosSimOf(b) == Get(loss_call.shard_state.cos_sim).data[b]
GraphOf(b) == Get(loss_call.shard_state.graph).data[b]
NodeNumOf(b) == Get(loss_call.shard_state.node_num).data[b]

\* the sum over i of exp(x[i][j]) * weight[i][j]
WeightedSum(x, weight, j) ==
  ColumnSum([i \in 1..Len(x) |->
               [jj \in 1..Len(x) |-> Exp(x[i][jj]) * weight[i][jj]]],
            j, Len(x))

\* the masked normalizer of row j of example b, and its positive sum
Normalizer(b, j) ==
  WeightedSum(CosSimOf(b), MaskGraph(NodeNumOf(b), Len(CosSimOf(b))), j)
PositiveSum(b, j) == WeightedSum(CosSimOf(b), GraphOf(b), j)

\* C14: in _ncontrast every row whose masked normalizer sums to zero has the
\* loss term 0, whatever its similarities and adjacency labels are: the
\* contrastive loss of the batch is the mean of the terms in which these rows
\* count 0.
ZeroNormalizerRowsAreZero ==
  MonolithicWithCosSim =>
    /\ \A b \in 1..Len(Get(loss_call.shard_state.cos_sim).data) :
         \A j \in 1..Len(CosSimOf(b)) :
           Normalizer(b, j) = 0 =>
             NContrastRows(CosSimOf(b), GraphOf(b),
                           MaskGraph(NodeNumOf(b), Len(CosSimOf(b))))[j] = Zero
    /\ batch_stats.contra_loss =
         MeanOf(Flatten(
           [b \in 1..Len(Get(loss_call.shard_state.cos_sim).data) |->
              [j \in 1..Len(CosSimOf(b)) |->
                 IF Normalizer(b, j) = 0 THEN Zero
                 ELSE NegLogRatio(PositiveSum(b, j), Normalizer(b, j))]]))

\* a batch was computed in which a row has a zero normalizer and a positive
\* sum that is not zero, beside a row with a normalizer that is not zero
ZeroNormalizerRowComputed ==
  /\ MonolithicWithCosSim
  /\ \E b \in 1..Len(Get(loss_call.shard_state.cos_sim).data) :
       \E j, jj \in 1..Len(CosSimOf(b)) :
         /\ Normalizer(b, j) = 0
         /\ PositiveSum(b, j) > 0
         /\ Normalizer(b, jj) > 0

\* row j of example b has an empty positive-label set
EmptyPositiveSet(b, j) ==
  \A i \in 1..Len(GraphOf(b)) : GraphOf(b)[i][j] = 0

\* C15: a row of the graph contrastive loss whose adjacency labels are all
\* zero while its normalizer is not zero has the loss term 0, and the
\* contrastive loss of the batch is finite.
EmptyPositiveSetIsNeutral ==
  MonolithicWithCosSim =>
    /\ \A b \in 1..Len(Get(loss_call.shard_state.cos_sim).data) :
         \A j \in 1..Len(CosSimOf(b)) :
           (EmptyPositiveSet(b, j) /\ Normalizer(b, j) # 0) =>
             NContrastRows(CosSimOf(b), GraphOf(b),
                           MaskGraph(NodeNumOf(b), Len(CosSimOf(b))))[j] = Zero
    /\ \A t \in batch_stats.contra_loss : t[1][1] # "inf"

\* the loss was built with label smoothing 0: by NMTLossCompute with
\* label_smoothing = 0, or by abs_loss with train=False
BuiltWithoutSmoothing ==
  \/ built.by = "NMTLossCompute" /\ built.label_smoothing = <<0, 1>>
  \/ built.by = "abs_loss" /\ built.label_smoothing = <<0, 1>>
  \/ built.by = "abs_loss" /\ ~built.train

\* the negative log-likelihood of the targets summed over the positions whose
\* target is not the padding token
NllOverNonPad(hs, gtruth) ==
  SumOf([n \in 1..Len(gtruth) |->
           IF gtruth[n] = PAD THEN Zero ELSE Symbol("nll", hs[n], gtruth[n])])

\* C16: a loss built by NMTLossCompute with label_smoothing = 0, or by
\* abs_loss with train=False whatever label_smoothing is passed, has the
\* sum-reduced NLL criterion that ignores the pad index, and its primary loss
\* is the negative log-likelihood summed over the non-pad positions; a
\* label-smoothing criterion is never constructed with smoothing 0.
NllWhenNoSmoothing ==
  /\ BuiltWithoutSmoothing =>
       /\ loss_pc # "raised" \/ loss_call.mode # "none"
       /\ criterion.kind = "NLLLoss"
       /\ criterion.ignore_index = PAD
       /\ (loss_call.mode = "monolithic" /\ loss_pc = "returned") =>
            batch_stats.loss =
              NllOverNonPad(
                Flatten(Get(loss_call.shard_state.output).data),
                Flatten(Get(loss_call.shard_state.target).data))
       /\ loss_call.mode = "sharded" =>
            \A i \in 1..Len(shard_losses) :
              PrimaryLoss(ShardArgs(yielded[i])) =
                NllOverNonPad(Flatten(yielded[i].output.data),
                              Flatten(yielded[i].target.data))
  /\ criterion.kind = "LabelSmoothingLoss" =>
       /\ built.label_smoothing # <<0, 1>>
       /\ criterion.smoothing_value[1] > 0
       /\ criterion.confidence # <<1, 1>>

\* a loss built by abs_loss(train=False, label_smoothing=0.1) has computed
\* the loss of a batch with a padded target
EvalLossBuiltWithSmoothingPassed ==
  /\ built = [by |-> "abs_loss", train |-> FALSE, label_smoothing |-> <<1, 10>>]
  /\ loss_call.mode = "monolithic"
  /\ loss_pc = "returned"
  /\ batch_stats.loss # Zero
  /\ \E n \in 1..Len(Flatten(Get(loss_call.shard_state.target).data)) :
       Flatten(Get(loss_call.shard_state.target).data)[n] = PAD

\* the Statistics of the shards whose loss has been computed
ShardStatistics ==
  [i \in 1..ShardsDone |-> ComputeLoss(ShardArgs(yielded[i])).stats] \o <<>>

\* the records stats merged one by one, in the given order, into an
\* accumulator that starts as acc
RECURSIVE MergeInto(_, _, _)
MergeInto(acc, stats, order) ==
  IF order = <<>> THEN acc
  ELSE UpdateStatistics(
         MergeInto(acc, stats, SubSeq(order, 1, Len(order) - 1)),
         stats[order[Len(order)]])

\* the orders in which n records can be merged
Orders(n) ==
  {order \in [1..n -> 1..n] : \A i, j \in 1..n : order[i] = order[j] => i = j}

\* the members of a set of shard numbers up to n, in ascending order
Ascending(part, n) == SelectSeq([i \in 1..n |-> i], LAMBDA i : i \in part)

\* the aggregate loss, n_words and n_correct of a record
Aggregate(stat) == <<stat.loss, stat.n_words, stat.n_correct>>

\* C17: merging the Statistics of the shards into the batch accumulator in
\* any order gives the aggregate loss, n_words and n_correct that
\* sharded_compute_loss accumulated (commutative), and so does merging two
\* accumulators that each hold a part of the shards (associative).
MergeOrderIrrelevant ==
  loss_call.mode = "sharded" =>
    \E stats \in {ShardStatistics} :
      /\ \A order \in Orders(ShardsDone) :
           Aggregate(MergeInto(EmptyStatistics, stats, order)) =
             Aggregate(batch_stats)
      /\ \A part \in SUBSET (1..ShardsDone) :
           Aggregate(
             UpdateStatistics(
               MergeInto(EmptyStatistics, stats, Ascending(part, ShardsDone)),
               MergeInto(EmptyStatistics, stats,
                         Ascending((1..ShardsDone) \ part, ShardsDone)))) =
             Aggregate(batch_stats)

\* the Statistics of three shards that differ in loss, n_words and n_correct
\* have been merged
ThreeStatisticsMerged ==
  /\ ShardedReturned
  /\ ShardsDone = 3
  /\ ShardStatistics[1].loss # ShardStatistics[3].loss
  /\ ShardStatistics[1].n_words # ShardStatistics[3].n_words
  /\ ShardStatistics[1].n_correct # ShardStatistics[3].n_correct

-----------------------------------------------------------------------------
(* Properties of the support operations of the decoder state *)

\* the state object the last call was applied to, after the call
StateAfter == Get(heap[last.ret])

\* the float tensors held in the slots of a cache that are not None
\* the slots of a cache that are not None, as <<layer key, slot name>>
FilledSlots(cache) ==
  {<<l, k>> \in (DOMAIN cache) \X SlotNames : ~IsNone(cache[l][k])}

\* C18: after detach() every tensor the state owns is detached from the
\* autograd graph: the layer inputs it saved (src, g_src and previous_input
\* are token tensors, which carry no gradient) and, in cached mode, every
\* slot of every layer's cache record that is not None.
DetachDetachesEveryTensor ==
  last.op = "detach" =>
    /\ ~IsNone(StateAfter.previous_layer_inputs) =>
         \A l \in 1..Len(Get(StateAfter.previous_layer_inputs)) :
           ~Get(StateAfter.previous_layer_inputs)[l].grad
    /\ ~IsNone(StateAfter.cache) =>
         \A p \in FilledSlots(Get(StateAfter.cache)) :
           ~Get(Get(StateAfter.cache)[p[1]][p[2]]).grad

\* the state object the last call was applied to, before the call
StateBefore == Get(last.pre)

\* the size of the axis repeat(1, k, 1) replicates, and the rows along it
RepeatedAxisSize(t) == IF Len(t.shape) = 2 THEN t.shape[1] ELSE t.shape[2]
RepeatedAxisRows(t) ==
  IF Len(t.shape) = 2 THEN {t.data[b] : b \in 1..Len(t.data)}
  ELSE UNION {{t.data[a][b] : b \in 1..Len(t.data[a])} : a \in 1..Len(t.data)}

\* C19: after repeat_beam_size_times(k), src is the prior src replicated k
\* times along the replicated axis, g_src is replicated by the same factor k,
\* so that src and g_src have the same size along that axis, and the content
\* of g_src is taken from the prior src, not from the prior g_src.
RepeatBeamSameFactor ==
  last.op = "repeat_beam_size_times" =>
    /\ StateAfter.src = Repeat1k1(StateBefore.src, last.beam_size)
    /\ RepeatedAxisSize(StateAfter.g_src) =
         last.beam_size * RepeatedAxisSize(StateBefore.g_src)
    /\ RepeatedAxisSize(StateAfter.g_src) = RepeatedAxisSize(StateAfter.src)
    /\ RepeatedAxisRows(StateAfter.g_src) = RepeatedAxisRows(StateBefore.src)

\* C20: map_batch_fn(fn) replaces src, g_src and every slot of every layer's
\* cache record that is not None by fn applied to it once with batch
\* dimension 0; the slots that are None stay None, and the layer keys and
\* the slot keys of the cache are the same as before.
MapBatchFnMapsEveryTensor ==
  last.op = "map_batch_fn" =>
    /\ StateAfter.src = IndexSelect(StateBefore.src, last.idx)
    /\ StateAfter.g_src = IndexSelect(StateBefore.g_src, last.idx)
    /\ IsNone(StateAfter.cache) <=> IsNone(StateBefore.cache)
    /\ ~IsNone(StateBefore.cache) =>
         /\ DOMAIN Get(StateAfter.cache) = DOMAIN Get(StateBefore.cache)
         /\ \A l \in DOMAIN Get(StateBefore.cache) :
              /\ DOMAIN Get(StateAfter.cache)[l] =
                   DOMAIN Get(StateBefore.cache)[l]
              /\ \A k \in DOMAIN Get(StateBefore.cache)[l] :
                   Get(StateAfter.cache)[l][k] =
                     IF IsNone(Get(StateBefore.cache)[l][k]) THEN None
                     ELSE Some(IndexSelect(Get(Get(StateBefore.cache)[l][k]),
                                           last.idx))

\* the two examples of a cached state of two layers, all of whose slots are
\* filled, have been exchanged by map_batch_fn
CachedStateReordered ==
  /\ last.op = "map_batch_fn"
  /\ last.idx = <<2, 1>>
  /\ num_layers = 2
  /\ ~IsNone(StateBefore.cache)
  /\ FilledSlots(Get(StateBefore.cache)) = LayerKeys(num_layers) \X SlotNames
  /\ \A p \in FilledSlots(Get(StateBefore.cache)) :
       Get(StateAfter.cache)[p[1]][p[2]] # Get(StateBefore.cache)[p[1]][p[2]]

-----------------------------------------------------------------------------
(* Properties of the sublayers of a decoder layer *)

\* C21: in every decoder layer of a forward call the value fed to the
\* feed-forward sublayer is dropout(mid) + query_g, the document
\* cross-attention output after dropout plus the residual output of the
\* graph-attention sublayer, and not dropout(mid) + query.
FeedForwardTakesGraphResidual ==
  last.op = "forward" =>
    \A n \in 1..Len(last.layer_locals) :
      /\ last.layer_locals[n].ff_in =
           Residual(last.layer_locals[n].mid, last.layer_locals[n].query_g)
      /\ last.layer_locals[n].ff_in #
           Residual(last.layer_locals[n].mid, last.layer_locals[n].query)

\* the history the state returned by the last forward call holds for layer
\* number n (1-based)
StoredHistory(n) == Get(StateAfter.previous_layer_inputs)[n]

\* the last call was a forward call on a state without a cache
ForwardWithoutCache ==
  last.op = "forward" /\ IsNone(StateBefore.cache)

AttendedKeys(mask, b, i, nkeys) ==
  {j \in 1..nkeys : IsNone(mask) \/ ~MaskAt(Get(mask), b, i, j)}

\* C23: whenever a decoder layer is called with accumulated previous input,
\* self-attention runs with no mask, and no query position of the current
\* input attends to a key position that lies later in the target sequence
\* than itself: query i of the current input, which is position
\* (length of the previous input) + i of the sequence, attends to no key
\* beyond that position.
UnmaskedSelfAttentionIsCausal ==
  last.op = "forward" =>
    \A n \in 1..Len(last.layer_locals) :
      ~IsNone(last.layer_locals[n].previous_input) =>
        /\ IsNone(last.dec_masks[n])
        /\ \A b \in 1..last.layer_locals[n].inputs.shape[1] :
             \A i \in 1..last.layer_locals[n].inputs.shape[2] :
               \A j \in AttendedKeys(last.dec_masks[n], b, i,
                                     last.all_inputs[n].shape[2]) :
                 j <= Get(last.layer_locals[n].previous_input).shape[2] + i

-----------------------------------------------------------------------------
(* Properties of the end of shards() and of the Statistics *)

\* C24: after its last shard was yielded and processed, shards() finishes
\* without raising for every shard state, also for one in which no tensor
\* field requires a gradient.
ShardsFinishesNormally ==
  ShardsEnded => loss_pc = "returned"

\* the symbols of a loss value that stand for a contrastive quantity
ContrastiveSymbols(value) ==
  {t \in value : t[1][1] \in {"ce", "nlog", "inf", "nan"}}

\* C25: the loss field of the Statistics record of _compute_loss, which
\* monolithic_compute_loss returns and sharded_compute_loss accumulates over
\* its shards, is the primary loss of the criterion only; the contrastive
\* terms that are added to the backpropagated loss are in the fields
\* contra_loss and doc_word_contra_loss and never in loss.  (The loss that
\* is backpropagated for a shard is its primary loss plus contrastive
\* quantities only.)
StatisticsLossIsPrimaryOnly ==
  /\ (loss_call.mode = "monolithic" /\ loss_pc = "returned") =>
       \E a \in {WithDefaults(StateArgs(loss_call.shard_state))} :
       \E c \in {ContrastiveTerms(a)} :
         /\ batch_stats.loss = PrimaryLoss(a)
         /\ batch_stats.contra_loss = c.contra
         /\ batch_stats.doc_word_contra_loss = c.doc_word
         /\ ContrastiveSymbols(batch_stats.loss) = {}
  /\ loss_call.mode = "sharded" =>
       \E primary \in {Seq1([i \in 1..ShardsDone |->
                               PrimaryLoss(ShardArgs(yielded[i]))])} :
         /\ batch_stats.loss = SumOf(primary)
         /\ ContrastiveSymbols(batch_stats.loss) = {}
         /\ \A i \in 1..ShardsDone :
              shard_losses[i] \ ContrastiveSymbols(shard_losses[i]) = primary[i]

\* the statistics of a batch whose two contrastive terms are not zero were
\* returned, and the backpropagated losses of two shards of such a batch
\* were accumulated
ContrastiveTermsReported ==
  /\ ShardedReturned
  /\ ShardsDone = 2
  /\ batch_stats.loss # Zero
  /\ batch_stats.contra_loss # Zero
  /\ batch_stats.doc_word_contra_loss # Zero
  /\ \A i \in 1..ShardsDone : ContrastiveSymbols(shard_losses[i]) # {}

-----------------------------------------------------------------------------
(* Properties of the citation subgraphs *)

\* _k_hop_neighbor has returned its levels
KHopReturned == graph_pc \in {"k_nbrs", "centre", "returned", "done"}

\* the papers _k_hop_neighbor returned, level after level
ReturnedPapers == ConcatLevels(sub_graph, graph_args.n_hop)

\* the papers with a row that k or fewer reference edges lead to from the
\* source paper
RECURSIVE ReachableWithin(_)
ReachableWithin(k) ==
  IF k = 0 THEN {graph_args.paper_id}
  ELSE The({near \cup {paper \in DOMAIN graph_strut_dict :
                        \E citing \in near \cap DOMAIN graph_strut_dict :
                          paper \in SetOf(graph_strut_dict[citing].references)} :
              near \in {ReachableWithin(k - 1)}})

\* C26: _k_hop_neighbor returns n_hop + 1 levels; level 0 holds exactly the
\* source paper; no paper id appears twice over all levels; every returned id
\* is a key of the graph dictionary; a paper at level k is reached from the
\* source paper by k reference edges and by no fewer.  The graphs checked
\* include cycles, self-citations, repeated references and references to
\* papers without a row.
KHopLevelsAreShortestDistances ==
  KHopReturned =>
    /\ DOMAIN sub_graph = 0..graph_args.n_hop
    /\ sub_graph[0] = <<graph_args.paper_id>>
    /\ \A i, j \in DOMAIN ReturnedPapers :
         ReturnedPapers[i] = ReturnedPapers[j] => i = j
    /\ SetOf(ReturnedPapers) \subseteq DOMAIN graph_strut_dict
    /\ \A k \in 0..graph_args.n_hop :
       \A paper \in SetOf(sub_graph[k]) :
         /\ paper \in ReachableWithin(k)
         /\ k > 0 => paper \notin ReachableWithin(k - 1)

\* the levels of a cycle of two papers were returned: the paper at level 1
\* cites the source paper, which stays at level 0 only
CycleReturned ==
  /\ KHopReturned
  /\ graph_args.n_hop = 2
  /\ Len(sub_graph[1]) = 1
  /\ sub_graph[2] = <<>>
  /\ graph_args.paper_id \in SetOf(graph_strut_dict[sub_graph[1][1]].references)

\* C27: _k_hop_neighbor terminates on every finite citation graph, and the
\* number of papers it returns (and generate_graph_structs collects), not
\* counting the source paper, never exceeds max_neighbor.
KHopTerminatesWithinMaxNeighbor ==
  /\ [](KHopReturned =>
         /\ Len(ReturnedPapers) - 1 <= graph_args.max_neighbor_num
         /\ graph_pc # "k_nbrs" =>
              Len(sub_graph_set) - 1 <= graph_args.max_neighbor_num)
  /\ (graph_pc = "k_hop") ~> (graph_pc = "k_nbrs")

\* _k_hop_neighbor returned max_neighbor neighbours while papers were still
\* waiting in its queue
ReturnedAtMaxNeighbor ==
  /\ graph_pc = "k_nbrs"
  /\ graph_args.max_neighbor_num = 1
  /\ Len(ReturnedPapers) - 1 = graph_args.max_neighbor_num
  /\ queue # <<>>
  /\ SetOf(ReturnedPapers) # ReachableWithin(graph_args.n_hop)

\* generate_dgl_graph was called with the number of nodes of the subgraph
DglGraphCalled ==
  /\ graph_pc \in {"done", "raised"}
  /\ dgl_graph.nodes_num = Len(sub_graph_dict.keys)

\* the number of edges of the graph from node i to itself
SelfLoops(i) ==
  Cardinality({e \in DOMAIN dgl_graph.edges : dgl_graph.edges[e] = <<i, i>>})

\* C28: in every subgraph dictionary generate_graph_structs returns for a
\* paper_id, paper_id is the first key and every neighbour list holds only
\* keys of the dictionary; generate_dgl_graph then raises nothing (paper_id
\* is node 0, no node is missing) and the graph has one self-loop edge per
\* node.
DglGraphHasOneSelfLoopPerNode ==
  /\ graph_pc \in {"returned", "done", "raised"} =>
       /\ sub_graph_dict.keys[1] = graph_args.paper_id
       /\ \A key_node \in SetOf(sub_graph_dict.keys) :
            SetOf(sub_graph_dict.nbrs[key_node]) \subseteq SetOf(sub_graph_dict.keys)
  /\ DglGraphCalled =>
       /\ dgl_graph.raised = ""
       /\ dgl_graph.num_nodes = Len(sub_graph_dict.keys)
       /\ \A i \in 0..(dgl_graph.num_nodes - 1) : SelfLoops(i) = 1

====
